---- MODULE Spec2Model ----
(***************************************************************************)
(* The provisioning pipeline of docker_to_uefi_bootable_image as a state   *)
(* machine.  Two programs are modelled: the binary built from              *)
(* src/bin/docker_to_uefi_bootable_image.rs on top of src/lib.rs ("bin")   *)
(* and the stand-alone src/main.rs ("main").  main() is straight-line      *)
(* code; it is written here as a table of steps (one record per statement  *)
(* that can fail or that touches a resource, with its source line), and    *)
(* one action per kind of step.  Every external command may exit zero or   *)
(* non-zero.  The `?` operator returns Err from main, which drops the      *)
(* live locals in reverse declaration order; `expect` in a destructor      *)
(* panics, which unwinds the same way, and a second panic during the       *)
(* unwinding aborts the process.                                           *)
(***************************************************************************)
EXTENDS Integers, Sequences, FiniteSets, TLC

\* Longest caller-supplied --extra-packages list that is enumerated.
MaxExtraPackages == 2

\* Most entries that <mnt>/lib/modules/ is given.
MaxKernelDirs == 2

VARIABLES
    prog,            \* which program runs: "bin" or "main"
    flavor,          \* the --flavor value as typed ("" when the flag is missing)
    extra_packages,  \* the --extra-packages list
    phase,           \* "parse", "run", "unwind", "exit"
    pc,              \* index of the next step of main
    live,            \* locals of main that own a resource, in declaration order
    panicking,       \* a panic is unwinding the stack
    failed,          \* main is returning Err
    exit,            \* "none" while running, then "ok", "err", "panic", "abort"
    log,             \* every command and file operation issued so far
    mounts,          \* mount points currently active
    attached,        \* the loop device is attached to the backing image
    path,            \* the path of the LoopbackDevice, as losetup printed it
    img,             \* backing image file: "none", "present", "deleted", "renamed"
    parts,           \* indices of the partitions in the image's table
    output,          \* the file at the output path has been written
    env,             \* what is assumed of the tools: "kernel" or "any"
    kernelversion,   \* the names read from <mnt>/lib/modules/
    fs_uuid,         \* the key read from blkid, by partition index
    fstab,           \* the lines of <mnt>/etc/fstab
    args_root_passwd, \* the --root-passwd option, once main has read it
    root_passwd,     \* the password main settled on
    passwd_stdin,    \* the lines written to the stdin of chroot <mnt> passwd
    world_lines,     \* the non-empty lines read from <mnt>/etc/apk/world
    fn,              \* the library function that is called on its own ("main": none)
    size_in_gb,      \* LoopbackDisk::new: its argument, a usize
    build,           \* "debug" (overflow checks on) or "release" (off)
    file_len,        \* the length of the blank file, <<>> while there is none
    command,         \* run_with_env: exe, args and env_vars
    child,           \* run_with_env: what became of the child process
    spawned,         \* run_with_env: the processes it spawned
    blkid_stdout,    \* the fstab key: what blkid -o export wrote to stdout
    key,             \* the fstab key: the String collected from it
    ret              \* what the library function returned

vars == <<prog, flavor, extra_packages, phase, pc, live, panicking, failed,
          exit, log, mounts, attached, path, img, parts, output, env,
          kernelversion, fs_uuid, fstab, args_root_passwd, root_passwd,
          passwd_stdin, world_lines, fn, size_in_gb, build, file_len, command, child,
          spawned, blkid_stdout, key, ret>>

\* The variables of a library function that is called on its own.
lib == <<fn, size_in_gb, build, file_len, command, child, spawned,
         blkid_stdout, key, ret>>

\* The password variables.
pw == <<args_root_passwd, root_passwd, passwd_stdin>>

Programs == {"bin", "main"}

\* --flavor values tried: the three of OsFlavor, one that no program knows,
\* and the missing flag.
FlavorInputs == {"debian", "ubuntu", "alpine", "fedora", ""}

\* Package names: the code passes them on without looking at them, so
\* which names a list holds does not matter, only how many and in which
\* order.
PackageNames == <<"vim", "curl", "htop">>

\* The --extra-packages lists tried: the empty list and the list of the
\* first MaxExtraPackages names (the code asks of a list only whether it is
\* empty, and hands it on whole).
ExtraPackageInputs ==
    {SubSeq(PackageNames, 1, n) : n \in {0, MaxExtraPackages}}

\* Names of directories under <mnt>/lib/modules/ (file names that are valid
\* UTF-8: into_string().unwrap() is not exercised with others).
KernelNames == <<"6.6.58-0-virt", "6.6.58-0-lts", "6.1.112-0-virt">>

\* What read_dir may yield: no entry, or the first one, two, .. names.  The
\* code counts the names and passes one on; it does not look at them.
DirListings == {SubSeq(KernelNames, 1, n) : n \in 0..MaxKernelDirs}

\* A line of text is a sequence of pieces; a line NAME=value of blkid is
\* the piece "NAME=" followed by the value.
DevnameLine == <<"DEVNAME=", "<loop>pN">>

UuidLine == <<"UUID=", "3f8a-77c1">>

TypeLine == <<"TYPE=", "ext4">>

\* What blkid -o export may print when it exits zero: the lines of a
\* device whose filesystem it recognises, and those of one where it finds
\* no filesystem UUID.
ProbeOutputs == {<<DevnameLine, UuidLine, TypeLine>>, <<DevnameLine, TypeLine>>}

\* Further lines of blkid -o export: the partition's own UUID, and a second
\* line with the UUID key.
PartUuidLine == <<"PARTUUID=", "0b5c6e1d-02">>

OtherUuidLine == <<"UUID=", "9d21-04be">>

BlkidLines == {DevnameLine, UuidLine, TypeLine, PartUuidLine, OtherUuidLine}

\* Most lines of a blkid output that is given to the key expression on its
\* own.
MaxProbeLines == 3

\* The bytes of the lines, a newline after each.
RECURSIVE Bytes(_)
Bytes(lines) ==
    IF lines = <<>> THEN <<>>
    ELSE Head(lines) \o <<"\n">> \o Bytes(Tail(lines))

\* What blkid may write to stdout: up to MaxProbeLines lines.
BlkidStdouts ==
    {Bytes(ls) : ls \in UNION {[1..n -> BlkidLines] : n \in 0..MaxProbeLines}}

\* str::split('\n'): the pieces between the newlines, empty ones kept.
RECURSIVE Split(_)
Split(text) ==
    IF \A i \in DOMAIN text : text[i] # "\n" THEN <<text>>
    ELSE LET i == CHOOSE i \in DOMAIN text :
                     /\ text[i] = "\n"
                     /\ \A j \in 1..(i - 1) : text[j] # "\n"
         IN  <<SubSeq(text, 1, i - 1)>> \o Split(SubSeq(text, i + 1, Len(text)))

\* The lines as Strings: text is held as its newlines and the runs of other
\* characters between them, so a line is empty or one run.
Lines(text) ==
    LET ls == Split(text)
    IN  [i \in DOMAIN ls |-> IF ls[i] = <<>> THEN "" ELSE ls[i][1]]

\* NonEmpty with the empty lines kept.
NonEmpty_KeepAll(lines) == lines

\* .filter(|x| !x.is_empty())
NonEmpty(lines) == SelectSeq(lines, LAMBDA x : x # "")

\* What setup-alpine may leave in <mnt>/etc/apk/world: a package a line
\* with no newline after the last; or lines with an empty one among them, a
\* package named twice and a newline at the end.
WorldFiles ==
    { <<"alpine-base", "\n", "openssh">>,
      <<"alpine-base", "\n", "\n", "busybox-openrc", "\n", "alpine-base", "\n">> }

\* Option<String>: None, Some(v).
None == [some |-> FALSE, v |-> <<>>]

Some(v) == [some |-> TRUE, v |-> v]

\* The --root-passwd values that are enumerated: the flag left out, and a
\* password with a character that is not alphanumeric.
RootPasswdInputs == {None, Some(<<"p", "w", "!">>)}

\* rand::distributions::Alphanumeric: a-z, A-Z and 0-9.
Alphanumeric ==
    {"a", "b", "c", "d", "e", "f", "g", "h", "i", "j", "k", "l", "m", "n",
     "o", "p", "q", "r", "s", "t", "u", "v", "w", "x", "y", "z",
     "A", "B", "C", "D", "E", "F", "G", "H", "I", "J", "K", "L", "M", "N",
     "O", "P", "Q", "R", "S", "T", "U", "V", "W", "X", "Y", "Z",
     "0", "1", "2", "3", "4", "5", "6", "7", "8", "9"}

\* What thread_rng().sample_iter(&Alphanumeric) may yield: the first
\* characters of two of its endless streams.
SampleStreams ==
    {<<"k", "Q", "7", "z", "M", "2", "b", "X", "r", "9", "T", "a", "0", "W",
       "e", "4", "J", "u">>,
     <<"3", "n", "V", "d", "8", "P", "q", "L", "0", "h", "Y", "5", "c", "G",
       "s", "1", "R", "f">>}

\* The number of characters taken for a generated password.
PasswdLen == 16

\* Iterator::take(n).
Take(n, s) == SubSeq(s, 1, IF Len(s) < n THEN Len(s) ELSE n)

\* RootPasswd with the option of the caller ignored.
RootPasswd_AlwaysGenerated(arg, stream) == Take(PasswdLen, stream)

\* let root_passwd: String = if let Some(v) = root_passwd { v } else
\* { thread_rng().sample_iter(&Alphanumeric).take(16).map(char::from).collect() }
RootPasswd(arg, stream) ==
    IF arg.some THEN arg.v ELSE Take(PasswdLen, stream)

\* writeln!(passwd_stdin, "{}", root_passwd): the password and a newline.
PasswdLine(v) == v \o <<"\n">>

\* The five mounts of the pipeline, named by what is mounted.
MountNames == {"root", "efi", "dev", "proc", "sys"}

\* Mounts whose destination lies under the destination of m:
\* <mnt>/boot/efi, <mnt>/dev, <mnt>/proc and <mnt>/sys lie under <mnt>.
NestedUnder(m) == IF m = "root" THEN {"efi", "dev", "proc", "sys"} ELSE {}

\* Operations done by the process itself, not by spawning a program.
InProcess == {"tempdir", "File::create", "set_len", "writeln", "fs::copy",
              "fs::rename", "read_to_string", "read_dir", "remove_dir_all"}

\* One statement of main: kind k, program c, arguments a, the partition
\* device it works on (0: none) and its source line.
S(k, c, a, p, ln) == [k |-> k, c |-> c, a |-> a, p |-> p, ln |-> ln]

\* OsFlavor (clap ValueEnum) of the bin program.
OsFlavor == {"debian", "ubuntu", "alpine"}

\* runlevel_settings of the Alpine branch.
runlevel_settings ==
    << <<"bootmisc", "boot">>, <<"hostname", "boot">>, <<"hwclock", "boot">>,
       <<"modules", "boot">>, <<"networking", "boot">>, <<"seedrng", "boot">>,
       <<"swap", "boot">>, <<"sysctl", "boot">>, <<"syslog", "boot">>,
       <<"devfs", "sysinit">>, <<"dmesg", "sysinit">>, <<"hwdrivers", "sysinit">>,
       <<"mdev", "sysinit">>,
       <<"acpid", "default">>, <<"crond", "default">>, <<"sshd", "default">>,
       <<"chronyd", "default">>,
       <<"killprocs", "shutdown">>, <<"mount-ro", "shutdown">>,
       <<"savecache", "shutdown">> >>

\* kernel_pkg with the two kernel packages exchanged.
kernel_pkg_Exchanged(f) ==
    IF f = "debian" THEN "linux-image-generic" ELSE "linux-image-amd64"

kernel_pkg(f) == IF f = "debian" THEN "linux-image-amd64" ELSE "linux-image-generic"

(***************************************************************************)
(* main() of src/bin/docker_to_uefi_bootable_image.rs, statement by        *)
(* statement.  <loop> is the loop device path, <mnt> the root mount point. *)
(***************************************************************************)
BinAcquire ==
    << S("disk", "LoopbackDisk::new", <<>>, 0, 71),
       S("part", "PartitionedLoopbackDisk::from", <<>>, 0, 74),
       S("run", "mkfs.vfat", <<"-F", "32", "<loop>p2">>, 2, 82),
       S("run", "mkfs.ext4", <<"<loop>p3">>, 3, 87),
       S("mount", "Mount::new", <<"root">>, 3, 97),
       S("mount", "Mount::new", <<"efi">>, 2, 100),
       S("run", "mkdir", <<"-p", "<mnt>/boot/efi/EFI/BOOT/">>, 0, 105) >>

BinUnpack ==
    << S("run", "docker", <<"run">>, 0, 123),
       S("run", "docker", <<"export">>, 0, 134),
       S("run", "docker", <<"stop">>, 0, 143),
       S("run", "docker", <<"rm">>, 0, 144),
       S("run", "tar", <<"--sparse", "-C", "<mnt>", "-xf", "export.tar">>, 0, 146),
       S("io", "fs::copy", <<"/etc/resolv.conf", "<mnt>/etc/resolv.conf">>, 0, 159) >>

\* BinBindMounts without the bind of /sys.
BinBindMounts_NoSys ==
    << S("bind", "Mount::bind", <<"dev">>, 0, 164),
       S("bind", "Mount::bind", <<"proc">>, 0, 165) >>

BinBindMounts ==
    << S("bind", "Mount::bind", <<"dev">>, 0, 164),
       S("bind", "Mount::bind", <<"proc">>, 0, 165),
       S("bind", "Mount::bind", <<"sys">>, 0, 167) >>

BinRepoUpdate(f) ==
    IF f = "alpine"
    THEN << S("chroot", "chroot", <<"<mnt>", "apk", "update">>, 0, 184) >>
    ELSE << S("chroot", "chroot", <<"<mnt>", "apt", "update", "-y">>, 0, 172) >>

\* BinRunlevels with the table walked from its last entry to its first.
BinRunlevels_Reversed ==
    [i \in 1..Len(runlevel_settings) |->
        S("chroot", "chroot",
          <<"<mnt>", "rc-update", "add",
            runlevel_settings[Len(runlevel_settings) + 1 - i][1],
            runlevel_settings[Len(runlevel_settings) + 1 - i][2]>>, 0, 476)]

BinRunlevels ==
    [i \in 1..Len(runlevel_settings) |->
        S("chroot", "chroot",
          <<"<mnt>", "rc-update", "add",
            runlevel_settings[i][1], runlevel_settings[i][2]>>, 0, 476)]

\* The arguments of the apk add that follows setup-alpine, up to the lines
\* of the world file.
WorldInstall ==
    <<"<mnt>", "apk", "add", "--update-cache", "--clean-protected",
      "--repository", "https://dl-cdn.alpinelinux.org/alpine/v3.17/main",
      "--repository", "https://dl-cdn.alpinelinux.org/alpine/v3.17/community",
      "alpine-base", "linux-virt", "openssh", "chrony">>

\* BinInstallAlpine with drop(drop_command) moved behind the rc-update
\* commands.
BinInstallAlpine_LateDrop ==
    << S("chroot", "chroot",
         <<"<mnt>", "apk", "add", "grub-efi", "mkinitfs", "alpine-conf",
           "busybox-openrc">>, 0, 238),
       S("guard", "DropCommand::new", <<"drop_command">>, 0, 252),
       S("io", "File::create", <<"<mnt>/answers">>, 0, 259),
       S("io", "writeln", <<"<mnt>/answers">>, 0, 262),
       S("chroot", "chroot",
         <<"<mnt>", "/bin/sh", "-x", "/sbin/setup-alpine", "-e", "-f", "-q",
           "/answers">>, 0, 322),
       S("io", "read_to_string", <<"<mnt>/etc/apk/world">>, 0, 353),
       S("chroot", "chroot",
         WorldInstall \o world_lines, 0, 362),
       S("chroot", "chroot",
         <<"<mnt>", "rc-update", "delete", "acpid", "sysinit">>, 0, 399),
       S("chroot", "chroot",
         <<"<mnt>", "rc-update", "delete", "crond", "sysinit">>, 0, 409) >>
    \o BinRunlevels
    \o << S("drop", "drop", <<"drop_command">>, 0, 395) >>

BinInstallAlpine ==
    << S("chroot", "chroot",
         <<"<mnt>", "apk", "add", "grub-efi", "mkinitfs", "alpine-conf",
           "busybox-openrc">>, 0, 238),
       S("guard", "DropCommand::new", <<"drop_command">>, 0, 252),
       S("io", "File::create", <<"<mnt>/answers">>, 0, 259),
       S("io", "writeln", <<"<mnt>/answers">>, 0, 262),
       S("chroot", "chroot",
         <<"<mnt>", "/bin/sh", "-x", "/sbin/setup-alpine", "-e", "-f", "-q",
           "/answers">>, 0, 322),
       S("io", "read_to_string", <<"<mnt>/etc/apk/world">>, 0, 353),
       S("chroot", "chroot",
         WorldInstall \o world_lines, 0, 362),
       S("drop", "drop", <<"drop_command">>, 0, 395),
       S("chroot", "chroot",
         <<"<mnt>", "rc-update", "delete", "acpid", "sysinit">>, 0, 399),
       S("chroot", "chroot",
         <<"<mnt>", "rc-update", "delete", "crond", "sysinit">>, 0, 409) >>
    \o BinRunlevels

\* The base packages of the apt install of main.
BasePackages(f) ==
    <<kernel_pkg(f), "systemd-sysv", "grub2-common", "grub-efi-amd64-bin",
      "initramfs-tools">>

\* BinInstallApt with the first of the extra packages left out.
BinInstallApt_FirstDropped(f, e) ==
    << S("chroot", "chroot",
         <<"<mnt>", "apt", "install", "-y">> \o BasePackages(f), 0, 205) >>
    \o (IF e # <<>>
        THEN << S("chroot", "chroot",
                  <<"<mnt>", "apt", "install", "-y">> \o Tail(e), 0, 233) >>
        ELSE <<>>)

BinInstallApt(f, e) ==
    << S("chroot", "chroot",
         <<"<mnt>", "apt", "install", "-y", kernel_pkg(f), "systemd-sysv",
           "grub2-common", "grub-efi-amd64-bin", "initramfs-tools">>, 0, 205) >>
    \o (IF e # <<>>
        THEN << S("chroot", "chroot",
                  <<"<mnt>", "apt", "install", "-y">> \o e, 0, 233) >>
        ELSE <<>>)

BinInstall(f, e) ==
    IF f = "alpine" THEN BinInstallAlpine ELSE BinInstallApt(f, e)

\* The fstab lines as the format strings give them: a writeln step of kind
\* "fstab" names the partition whose key comes first (0: none) and the
\* rest of the line.
BinFstab(f) ==
    << S("io", "File::create", <<"<mnt>/etc/fstab">>, 0, 495),
       S("probe", "blkid", <<"-o", "export", "<loop>p3">>, 3, 497),
       S("fstab", "writeln",
         <<"<mnt>/etc/fstab", " / ext4 defaults,errors=remount-ro 0 1">>, 3, 505),
       S("probe", "blkid", <<"-o", "export", "<loop>p2">>, 2, 511),
       S("fstab", "writeln",
         <<"<mnt>/etc/fstab", " /boot/efi vfat defaults 0 2">>, 2, 519) >>
    \o (IF f = "alpine"
        THEN << S("fstab", "writeln",
                  <<"<mnt>/etc/fstab", "tmpfs /tmp tmpfs nosuid,nodev 0 0">>, 0, 522),
                S("run", "mkswap", <<"<loop>p4">>, 4, 527),
                S("probe", "blkid", <<"-o", "export", "<loop>p4">>, 4, 529),
                S("fstab", "writeln",
                  <<"<mnt>/etc/fstab", " swap swap defaults 0 0">>, 4, 537) >>
        ELSE <<>>)
    \o << S("run", "cat", <<"<mnt>/etc/fstab">>, 0, 542) >>

\* BinGrub with the device map removed before grub-mkconfig has run.
BinGrub_MapRemovedEarly ==
    << S("io", "File::create", <<"<mnt>/etc/hosts">>, 0, 550),
       S("io", "writeln", <<"<mnt>/etc/hosts">>, 0, 551),
       S("io", "File::create", <<"<mnt>/etc/hostname">>, 0, 570),
       S("io", "writeln", <<"<mnt>/etc/hostname">>, 0, 571),
       S("run", "mkdir", <<"-p", "<mnt>/boot/grub/">>, 0, 576),
       S("io", "File::create", <<"<mnt>/boot/grub/device.map">>, 0, 584),
       S("io", "writeln", <<"<mnt>/boot/grub/device.map">>, 0, 586),
       S("run", "mkdir", <<"-p", "<mnt>/etc/default/">>, 0, 589),
       S("io", "File::create", <<"<mnt>/etc/default/grub">>, 0, 597),
       S("io", "writeln", <<"<mnt>/etc/default/grub">>, 0, 599),
       S("run", "grub-install", <<"--target=x86_64-efi", "<loop>">>, 0, 614),
       S("chroot", "chroot", <<"<mnt>", "rm", "/boot/grub/device.map">>, 0, 635),
       S("chroot", "chroot",
         <<"<mnt>", "grub-mkconfig", "-o", "/boot/grub/grub.cfg">>, 0, 624) >>

BinGrub ==
    << S("io", "File::create", <<"<mnt>/etc/hosts">>, 0, 550),
       S("io", "writeln", <<"<mnt>/etc/hosts">>, 0, 551),
       S("io", "File::create", <<"<mnt>/etc/hostname">>, 0, 570),
       S("io", "writeln", <<"<mnt>/etc/hostname">>, 0, 571),
       S("run", "mkdir", <<"-p", "<mnt>/boot/grub/">>, 0, 576),
       S("io", "File::create", <<"<mnt>/boot/grub/device.map">>, 0, 584),
       S("io", "writeln", <<"<mnt>/boot/grub/device.map">>, 0, 586),
       S("run", "mkdir", <<"-p", "<mnt>/etc/default/">>, 0, 589),
       S("io", "File::create", <<"<mnt>/etc/default/grub">>, 0, 597),
       S("io", "writeln", <<"<mnt>/etc/default/grub">>, 0, 599),
       S("run", "grub-install", <<"--target=x86_64-efi", "<loop>">>, 0, 614),
       S("chroot", "chroot",
         <<"<mnt>", "grub-mkconfig", "-o", "/boot/grub/grub.cfg">>, 0, 624),
       S("chroot", "chroot", <<"<mnt>", "rm", "/boot/grub/device.map">>, 0, 635) >>

\* kernelversion.pop().unwrap(): the last name of the list.
Pop(v) == IF v = <<>> THEN "" ELSE v[Len(v)]

BinInitramfs(f) ==
    IF f = "alpine"
    THEN << S("kver", "read_dir", <<"<mnt>/lib/modules/">>, 0, 661),
            S("chroot", "chroot",
              <<"<mnt>", "mkinitfs", "-c", "/etc/mkinitfs/mkinitfs.conf", "-b",
                "/", Pop(kernelversion)>>, 0, 680),
            S("chroot", "chroot",
              <<"<mnt>", "sed", "-i", "-e", "s/^#ttyS0/ttyS0/g",
                "/etc/inittab">>, 0, 698) >>
    ELSE << S("chroot", "chroot", <<"<mnt>", "update-initramfs", "-u">>, 0, 647) >>

BinPasswd == << S("passwd", "chroot", <<"<mnt>", "passwd">>, 0, 738) >>

\* BinCleanUp with the EFI mount dropped before the bind mounts.
BinCleanUp_EfiFirst ==
    << S("drop", "drop", <<"efi">>, 0, 756),
       S("drop", "drop", <<"dev">>, 0, 753),
       S("drop", "drop", <<"proc">>, 0, 754),
       S("drop", "drop", <<"sys">>, 0, 755),
       S("drop", "drop", <<"root">>, 0, 757) >>

BinCleanUp ==
    << S("drop", "drop", <<"dev">>, 0, 753),
       S("drop", "drop", <<"proc">>, 0, 754),
       S("drop", "drop", <<"sys">>, 0, 755),
       S("drop", "drop", <<"efi">>, 0, 756),
       S("drop", "drop", <<"root">>, 0, 757) >>

BinExport ==
    << S("export", "fs::copy", <<"<img>", "<output_file>">>, 0, 764),
       S("return", "Ok", <<>>, 0, 768) >>

\* BinSteps with the image copied to the output path before the password
\* is set and the mounts are released.
BinSteps_ExportBeforePasswd(f, e) ==
    BinAcquire \o BinUnpack \o BinBindMounts \o BinRepoUpdate(f)
    \o BinInstall(f, e) \o BinFstab(f) \o BinGrub \o BinInitramfs(f)
    \o <<BinExport[1]>> \o BinPasswd \o BinCleanUp \o <<BinExport[2]>>

\* BinSteps with the initramfs rebuilt before the fstab is written.
BinSteps_InitramfsFirst(f, e) ==
    BinAcquire \o BinUnpack \o BinBindMounts \o BinRepoUpdate(f)
    \o BinInstall(f, e) \o BinInitramfs(f) \o BinFstab(f) \o BinGrub
    \o BinPasswd \o BinCleanUp \o BinExport

\* BinSteps with the bind mounts made before the container is unpacked.
BinSteps_BindBeforeUnpack(f, e) ==
    BinAcquire \o BinBindMounts \o BinUnpack \o BinRepoUpdate(f)
    \o BinInstall(f, e) \o BinFstab(f) \o BinGrub \o BinInitramfs(f)
    \o BinPasswd \o BinCleanUp \o BinExport

BinSteps(f, e) ==
    BinAcquire \o BinUnpack \o BinBindMounts \o BinRepoUpdate(f)
    \o BinInstall(f, e) \o BinFstab(f) \o BinGrub \o BinInitramfs(f)
    \o BinPasswd \o BinCleanUp \o BinExport

(***************************************************************************)
(* main() of src/main.rs, statement by statement.  It partitions the image *)
(* file itself (<img>) before it is attached, takes --flavor as a string   *)
(* and looks at it only when the kernel package is chosen.                 *)
(***************************************************************************)
MainAcquire ==
    << S("io", "tempdir", <<"working_dir">>, 0, 224),
       S("io", "File::create", <<"<img>">>, 0, 234),
       S("io", "set_len", <<"<img>">>, 0, 235),
       S("sgdisk", "sgdisk", <<"-n", "1:2048:4095", "<img>">>, 1, 239),
       S("sgdisk", "sgdisk", <<"-n", "2:4096:413695", "<img>">>, 2, 252),
       S("sgdisk", "sgdisk", <<"-n", "3:413696:", "<img>">>, 3, 265),
       S("attach", "LoopbackDevice::new", <<"root_device">>, 0, 271),
       S("run", "partprobe", <<"<loop>">>, 0, 278),
       S("run", "mkfs.vfat", <<"-F", "32", "<loop>p2">>, 2, 281),
       S("run", "mkfs.ext4", <<"<loop>p3">>, 3, 286),
       S("mount", "Mount::new", <<"root">>, 3, 296),
       S("mount", "Mount::new", <<"efi">>, 2, 299),
       S("run", "mkdir", <<"-p", "<mnt>/boot/efi/EFI/BOOT/">>, 0, 304) >>

MainUnpack ==
    << S("run", "docker", <<"run">>, 0, 322),
       S("run", "docker", <<"export">>, 0, 333),
       S("run", "docker", <<"stop">>, 0, 342),
       S("run", "docker", <<"rm">>, 0, 343),
       S("run", "tar", <<"--sparse", "-C", "<mnt>", "-xf", "export.tar">>, 0, 345),
       S("io", "fs::copy", <<"/etc/resolv.conf", "<mnt>/etc/resolv.conf">>, 0, 358) >>

MainBindMounts ==
    << S("bind", "Mount::bind", <<"dev">>, 0, 363),
       S("bind", "Mount::bind", <<"proc">>, 0, 365),
       S("bind", "Mount::bind", <<"sys">>, 0, 366) >>

MainInstall(f, e) ==
    << S("chroot", "chroot", <<"<mnt>", "apt", "update", "-y">>, 0, 368),
       S("flavor", "match", <<>>, 0, 383),
       S("chroot", "chroot",
         <<"<mnt>", "apt", "install", "-y", kernel_pkg(f), "systemd-sysv",
           "grub2-common", "grub-efi-amd64-bin", "initramfs-tools">>, 0, 391) >>
    \o (IF e # <<>>
        THEN << S("chroot", "chroot",
                  <<"<mnt>", "apt", "install", "-y">> \o e, 0, 417) >>
        ELSE <<>>)

MainFstab ==
    << S("io", "File::create", <<"<mnt>/etc/fstab">>, 0, 422),
       S("probe", "blkid", <<"-o", "export", "<loop>p3">>, 3, 424),
       S("fstab", "writeln",
         <<"<mnt>/etc/fstab", " / ext4 errors=remount-ro 0 1">>, 3, 432),
       S("probe", "blkid", <<"-o", "export", "<loop>p2">>, 2, 434),
       S("fstab", "writeln",
         <<"<mnt>/etc/fstab", " /boot/efi vfat defaults 0 2">>, 2, 442),
       S("run", "cat", <<"<mnt>/etc/fstab">>, 0, 446) >>

MainGrub ==
    << S("run", "mkdir", <<"-p", "<mnt>/boot/grub/">>, 0, 453),
       S("io", "File::create", <<"<mnt>/boot/grub/device.map">>, 0, 461),
       S("io", "writeln", <<"<mnt>/boot/grub/device.map">>, 0, 463),
       S("run", "mkdir", <<"-p", "<mnt>/etc/default/">>, 0, 466),
       S("io", "File::create", <<"<mnt>/etc/default/grub">>, 0, 474),
       S("io", "writeln", <<"<mnt>/etc/default/grub">>, 0, 476),
       S("run", "grub-install", <<"--target=x86_64-efi", "<loop>">>, 0, 483),
       S("chroot", "chroot",
         <<"<mnt>", "grub-mkconfig", "-o", "/boot/grub/grub.cfg">>, 0, 493),
       S("chroot", "chroot", <<"<mnt>", "rm", "/boot/grub/device.map">>, 0, 504),
       S("chroot", "chroot", <<"<mnt>", "update-initramfs", "-u">>, 0, 514) >>

MainPasswd == << S("passwd", "chroot", <<"<mnt>", "passwd">>, 0, 535) >>

MainCleanUp ==
    << S("drop", "drop", <<"dev">>, 0, 550),
       S("drop", "drop", <<"proc">>, 0, 551),
       S("drop", "drop", <<"sys">>, 0, 552),
       S("drop", "drop", <<"efi">>, 0, 553),
       S("drop", "drop", <<"root">>, 0, 554) >>

MainExport ==
    << S("export", "fs::rename", <<"<img>", "<output_file>">>, 0, 557),
       S("return", "Ok", <<>>, 0, 561) >>

MainSteps(f, e) ==
    MainAcquire \o MainUnpack \o MainBindMounts \o MainInstall(f, e)
    \o MainFstab \o MainGrub \o MainPasswd \o MainCleanUp \o MainExport

\* The statements of the program that runs.
Steps == IF prog = "bin" THEN BinSteps(flavor, extra_packages)
         ELSE MainSteps(flavor, extra_packages)

\* A line of src/lib.rs for the bin program, of src/main.rs for the other.
Ln(b, m) == IF prog = "bin" THEN b ELSE m

(***************************************************************************)
(* The tools.  Under env = "kernel" a command on a partition device that   *)
(* was never created fails and so does the umount of a mount point that    *)
(* still has a mount under it; under env = "any" nothing is assumed and    *)
(* every command may exit either way.                                      *)
(***************************************************************************)
Missing(p) == env = "kernel" /\ p # 0 /\ p \notin parts

Busy(m) == env = "kernel" /\ NestedUnder(m) \cap mounts # {}

\* A command or file operation as it is issued: what ran, whether it ended
\* well, and the mounts and the loop attachment at that moment.
EntryOut(c, a, ok, ln, out) ==
    [cmd |-> c, arg |-> a, ok |-> ok, mounts |-> mounts,
     attached |-> attached, ln |-> ln, out |-> out]

\* The same when what it printed or returned is not looked at.
Entry(c, a, ok, ln) == EntryOut(c, a, ok, ln, <<>>)

\* run / run_with_env: spawn exe with args, wait; Err unless it exits zero.
run(exe, args, ok, ln) == Entry(exe, args, ok, ln)

(***************************************************************************)
(* Constructors and destructors of src/lib.rs (the same code is repeated   *)
(* in src/main.rs).  A destructor is given how its commands end (o) and    *)
(* yields what it issued, what it released and whether it panicked.        *)
(***************************************************************************)
MountDevice(m) ==
    CASE m = "root" -> "<loop>p3" [] m = "efi" -> "<loop>p2" [] OTHER -> "/" \o m

\* Mount::new: mkdir -p dest, then mount source dest.
Mount_new(m, o) ==
    << run("mkdir", <<"-p", m>>, o # "mkdir", Ln(148, 177)) >>
    \o (IF o = "mkdir" THEN <<>>
        ELSE << run("mount", <<MountDevice(m), m>>, o = "ok", Ln(151, 180)) >>)

\* Mount::bind: mkdir -p dest, then mount --bind source dest.
Mount_bind(m, o) ==
    << run("mkdir", <<"-p", m>>, o # "mkdir", Ln(157, 186)) >>
    \o (IF o = "mkdir" THEN <<>>
        ELSE << run("mount", <<"--bind", MountDevice(m), m>>, o = "ok",
                    Ln(160, 189)) >>)

\* Drop for Mount with the result of sync not looked at: umount is issued
\* after a sync that failed.
Mount_drop_SyncUnchecked(m, o) ==
    [entries |->
        << run("sync", <<>>, o # "sync", Ln(173, 202)),
           run("umount", <<m>>, o # "umount", Ln(174, 203)) >>,
     unmounted |-> IF o # "umount" THEN {m} ELSE {},
     detached |-> FALSE,
     deleted |-> FALSE,
     panic |-> o = "umount"]

\* Drop for Mount: sync, expect, umount dest, expect.
Mount_drop(m, o) ==
    [entries |->
        << run("sync", <<>>, o # "sync", Ln(173, 202)) >>
        \o (IF o = "sync" THEN <<>>
            ELSE << run("umount", <<m>>, o = "ok", Ln(174, 203)) >>),
     unmounted |-> IF o = "ok" THEN {m} ELSE {},
     detached |-> FALSE,
     deleted |-> FALSE,
     panic |-> o # "ok"]

\* output_stdout_string, output_stderr_string: every byte as a char, one
\* trailing newline popped.
output_string(bytes) ==
    IF bytes # <<>> /\ bytes[Len(bytes)] = "\n"
    THEN SubSeq(bytes, 1, Len(bytes) - 1)
    ELSE bytes

\* LoopbackDevice::new: losetup --show --find source_path.
LoopbackDevice_new(ok, out) ==
    EntryOut("losetup", <<"--show", "--find", "<img>">>, ok, Ln(118, 146), out)

\* What losetup --show --find may print when it exits with success: the
\* device and a newline, or nothing.
LosetupOutputs == {<<"/dev/loop0", "\n">>, <<>>}

\* The words that stand for root_device.path() and for the partition
\* devices made from it.
LoopWords == {"<loop>", "<loop>p2", "<loop>p3", "<loop>p4"}

\* A command is handed a device made from a path that is empty: there is
\* no such device.
NoSuchDevice(args) ==
    path = <<>> /\ \E j \in DOMAIN args : args[j] \in LoopWords

\* Drop for LoopbackDevice: losetup -d path, expect.
LoopbackDevice_drop(o) ==
    [entries |-> << run("losetup", <<"-d", "<loop>">>, o = "ok", Ln(138, 167)) >>,
     unmounted |-> {},
     detached |-> o = "ok",
     deleted |-> FALSE,
     panic |-> o # "ok"]

\* Dropping the tempfile::TempDir removes the working directory and all
\* that is in it, the backing image included; errors are ignored.
TempDir_drop ==
    [entries |-> << Entry("remove_dir_all", <<"working_dir">>, TRUE, Ln(179, 224)) >>,
     unmounted |-> {},
     detached |-> FALSE,
     deleted |-> TRUE,
     panic |-> FALSE]

\* LoopbackDisk has no Drop of its own: its fields are dropped in the order
\* they are declared, working_dir before root_device.
LoopbackDisk_drop(o) ==
    [entries |-> TempDir_drop.entries \o LoopbackDevice_drop(o).entries,
     unmounted |-> {},
     detached |-> LoopbackDevice_drop(o).detached,
     deleted |-> TRUE,
     panic |-> LoopbackDevice_drop(o).panic]

\* The guard registered at DropCommand::new runs its command when dropped.
\* Its code is not in the source files: a failing command either panics
\* like the other destructors ("panic") or is let pass ("ignored").
DropCommand_drop(o) ==
    [entries |->
        << run("chroot", <<"<mnt>", "openrc", "shutdown">>, o = "ok", 254) >>,
     unmounted |-> {},
     detached |-> FALSE,
     deleted |-> FALSE,
     panic |-> o = "panic"]

\* How the commands of the destructor of local h may end.
DropOutcomes(h) ==
    CASE h \in MountNames ->
            {"sync", "umount"} \cup (IF Busy(h) THEN {} ELSE {"ok"})
      [] h \in {"disk", "root_device"} ->
            {"losetup"} \cup (IF path = <<>> THEN {} ELSE {"ok"})
      [] h = "drop_command" -> {"ok", "panic", "ignored"}
      [] OTHER -> {"ok"}

\* The destructor of local h.
Destroy(h, o) ==
    CASE h \in MountNames -> Mount_drop(h, o)
      [] h = "disk" -> LoopbackDisk_drop(o)
      [] h = "root_device" -> LoopbackDevice_drop(o)
      [] h = "drop_command" -> DropCommand_drop(o)
      [] OTHER -> TempDir_drop

\* The effect of a destructor on the log and on the resources.
Released(r) ==
    /\ log' = log \o r.entries
    /\ mounts' = mounts \ r.unmounted
    /\ attached' = (attached /\ ~r.detached)
    /\ img' = IF r.deleted /\ img = "present" THEN "deleted" ELSE img

\* Proceed with a failed call made once more before main gives up.
Proceed_RetryOnce(ok) ==
    IF ok THEN pc' = pc + 1 /\ phase' = phase /\ failed' = failed
    ELSE IF log = <<>> \/ log[Len(log)].ok
         THEN pc' = pc /\ phase' = phase /\ failed' = failed
         ELSE pc' = pc /\ phase' = "unwind" /\ failed' = TRUE

\* `?`: go on when the call returned Ok, return Err from main otherwise.
Proceed(ok) ==
    IF ok THEN pc' = pc + 1 /\ phase' = phase /\ failed' = failed
    ELSE pc' = pc /\ phase' = "unwind" /\ failed' = TRUE

(***************************************************************************)
(* Values of the library functions of src/lib.rs that are called on their  *)
(* own.                                                                    *)
(***************************************************************************)
\* A usize is kept as its digits in base 2^16, lowest first.
Limb == 65536

\* The digits of a usize: 64 bits.
WordLimbs == 4

\* The digits kept for a product that is not cut to a usize.
WideLimbs == 7

\* --disk-size values: 0, 1, 8, 2^33, 2^34, 2^34 + 1 and 2^64 - 1.
SizeInputs ==
    {<<0, 0, 0, 0>>, <<1, 0, 0, 0>>, <<8, 0, 0, 0>>, <<0, 0, 2, 0>>,
     <<0, 0, 4, 0>>, <<1, 0, 4, 0>>, <<65535, 65535, 65535, 65535>>}

\* Overflow checks are on in a debug build and off in a release build.
Builds == {"debug", "release"}

\* x * k for a k below 2^15, with the carry c: one digit more than x.
RECURSIVE MulCarry(_, _, _)
MulCarry(x, k, c) ==
    IF x = <<>> THEN <<c>>
    ELSE LET t == x[1] * k + c
         IN  <<t % Limb>> \o MulCarry(Tail(x), k, t \div Limb)

\* x with zero digits added up to n digits.
Pad(x, n) == x \o [i \in 1..(n - Len(x)) |-> 0]

\* usize * usize: the product cut to the word, and whether it overflowed.
usize_mul(x, k) ==
    LET p == MulCarry(x, k, 0)
    IN  [v |-> SubSeq(p, 1, WordLimbs), overflow |-> p[WordLimbs + 1] # 0]

\* size_in_gb * 1024 * 1024 * 1024 with every product cut to the word, which
\* is what a build without overflow checks computes.
SizeInBytes_Wrapping(x) ==
    usize_mul(usize_mul(usize_mul(x, 1024).v, 1024).v, 1024).v

\* One of the three products does not fit the word: a build with overflow
\* checks panics there.
SizeOverflows(x) ==
    \/ usize_mul(x, 1024).overflow
    \/ usize_mul(usize_mul(x, 1024).v, 1024).overflow
    \/ usize_mul(usize_mul(usize_mul(x, 1024).v, 1024).v, 1024).overflow

\* size_in_gb * 2^30 as a number, not cut to the word.
SizeInBytes_Exact(x) ==
    Pad(SubSeq(MulCarry(MulCarry(MulCarry(x, 1024, 0), 1024, 0), 1024, 0),
               1, WideLimbs), WideLimbs)

\* File::set_len(u64) hands the length to ftruncate as an off_t: a length
\* of 2^63 or more is refused.
FitsOffT(x) == x[WordLimbs] < 32768

\* Bytes of a child's output, one string a byte.
ByteStrings == {<<>>, <<"e", "r", "r", "\n">>, <<"o", "k", "\n", "\n">>}

\* The commands run_with_env is called with.
CommandInputs ==
    [exe : {"sgdisk", "chroot"},
     args : {<<>>, <<"-n", "1:2048:4095", "<loop>">>,
             <<"<mnt>", "apk", "update">>},
     env_vars : {<<>>, <<<<"BOOTLOADER", "none">>, <<"USE_EFI", "1">>>>}]

\* ExitStatus: an exit code, or the child was killed by a signal.
ExitStatuses ==
    [signaled : {FALSE}, code : {0, 1, 2}] \cup [signaled : {TRUE}, code : {-1}]

\* ExitStatus::success
success(status) == ~status.signaled /\ status.code = 0

\* What may become of the child: it is not spawned (cmd.output() is Err),
\* or it runs, writes and ends.
ChildOutcomes ==
    [spawn : {TRUE}, status : ExitStatuses, stdout : ByteStrings,
     stderr : ByteStrings]
    \cup [spawn : {FALSE}, status : {[signaled |-> FALSE, code |-> 0]},
          stdout : {<<>>}, stderr : {<<>>}]

NoCommand == [exe |-> "", args |-> <<>>, env_vars |-> <<>>]

NoChild ==
    [spawn |-> FALSE, status |-> [signaled |-> FALSE, code |-> 0],
     stdout |-> <<>>, stderr |-> <<>>]

\* Result<_>: not returned yet, a panic, Ok(..) or Err(message).
NoRet ==
    [done |-> FALSE, ok |-> FALSE, panic |-> FALSE, stdout |-> <<>>,
     stderr |-> <<>>, err |-> <<>>]

Ok(out, errout) ==
    [done |-> TRUE, ok |-> TRUE, panic |-> FALSE, stdout |-> out,
     stderr |-> errout, err |-> <<>>]

Err(message) ==
    [done |-> TRUE, ok |-> FALSE, panic |-> FALSE, stdout |-> <<>>,
     stderr |-> <<>>, err |-> message]

Panic(message) ==
    [done |-> TRUE, ok |-> FALSE, panic |-> TRUE, stdout |-> <<>>,
     stderr |-> <<>>, err |-> message]

\* bail!("Command failed!\n{}", output_stderr_string(&result))
CommandFailed(result) == <<"Command failed!\n">> \o output_string(result.stderr)

\* No library function is called on its own.
LibIdle ==
    /\ fn = "main"
    /\ size_in_gb = <<>>
    /\ build = "release"
    /\ file_len = <<>>
    /\ command = NoCommand
    /\ child = NoChild
    /\ spawned = <<>>
    /\ blkid_stdout = <<>>
    /\ key = <<>>
    /\ ret = NoRet

(***************************************************************************)
(* The state machine.                                                      *)
(***************************************************************************)
Init ==
    /\ prog \in Programs
    /\ flavor \in FlavorInputs
    /\ extra_packages \in ExtraPackageInputs
    /\ env \in {"kernel", "any"}
    /\ phase = "parse"
    /\ pc = 1
    /\ live = <<>>
    /\ panicking = FALSE
    /\ failed = FALSE
    /\ exit = "none"
    /\ log = <<>>
    /\ mounts = {}
    /\ attached = FALSE
    /\ path = <<>>
    /\ img = "none"
    /\ parts = {}
    /\ output = FALSE
    /\ kernelversion = <<>>
    /\ fs_uuid = [p \in {2, 3, 4} |-> <<>>]
    /\ fstab = <<>>
    /\ args_root_passwd = None
    /\ root_passwd = <<>>
    /\ passwd_stdin = <<>>
    /\ world_lines = <<>>
    /\ LibIdle

\* Args::parse (clap, --flavor an OsFlavor) or Args::from_args_safe()?
\* (structopt, --flavor any string): a rejected command line ends the
\* process with an error before main does anything else.
ParseArgs ==
    /\ phase = "parse"
    /\ IF (prog = "bin" /\ flavor \in OsFlavor) \/ (prog = "main" /\ flavor # "")
       THEN phase' = "run" /\ exit' = exit
       ELSE phase' = "exit" /\ exit' = "err"
    /\ UNCHANGED <<prog, flavor, extra_packages, pc, live, panicking, failed,
                   log, mounts, attached, img, parts, output, env,
                   kernelversion, fs_uuid, fstab, pw, world_lines, lib, path>>

\* run(...)? in main, directly or as chroot <mnt> ...; sgdisk -n N adds
\* partition N to the table.
RunCommand ==
    /\ phase = "run"
    /\ Steps[pc].k \in {"run", "chroot", "sgdisk"}
    /\ LET s == Steps[pc] IN
       \E ok \in BOOLEAN :
          /\ (s.k # "sgdisk" /\ Missing(s.p)) => ~ok
          /\ NoSuchDevice(s.a) => ~ok
          /\ log' = Append(log, run(s.c, s.a, ok, s.ln))
          /\ parts' = IF s.k = "sgdisk" /\ ok THEN parts \cup {s.p} ELSE parts
          /\ Proceed(ok)
    /\ UNCHANGED <<prog, flavor, extra_packages, live, panicking, exit, mounts,
                   attached, img, output, env,
                   kernelversion, fs_uuid, fstab, pw, world_lines, lib, path>>

\* A std::fs / std::io / tempfile call followed by `?`.
FileOp ==
    /\ phase = "run"
    /\ Steps[pc].k = "io"
    /\ LET s == Steps[pc] IN
       \E ok \in BOOLEAN, text \in WorldFiles \cup {<<>>} :
          /\ (s.c # "read_to_string" \/ ~ok) <=> text = <<>>
          /\ log' = Append(log, EntryOut(s.c, s.a, ok, s.ln, text))
          /\ world_lines' = IF s.c = "read_to_string" /\ ok
                            THEN NonEmpty(Lines(text)) ELSE world_lines
          /\ live' = IF s.c = "tempdir" /\ ok THEN Append(live, "working_dir")
                     ELSE live
          /\ img' = IF s.c = "File::create" /\ s.a = <<"<img>">> /\ ok
                    THEN "present" ELSE img
          /\ Proceed(ok)
    /\ UNCHANGED <<prog, flavor, extra_packages, panicking, exit, mounts,
                   attached, parts, output, env,
                   kernelversion, fs_uuid, fstab, pw, lib, path>>

\* LoopbackDisk::new(disk_size)?: tempdir, File::create, set_len,
\* LoopbackDevice::new.  On an error the TempDir made so far is dropped.
LoopbackDisk_new ==
    /\ phase = "run"
    /\ Steps[pc].k = "disk"
    /\ \E o \in {"tempdir", "create", "set_len", "losetup", "ok"},
          out \in LosetupOutputs :
          LET t == Entry("tempdir", <<"working_dir">>, o # "tempdir", 187)
              c == Entry("File::create", <<"<img>">>, o # "create", 200)
              l == Entry("set_len", <<"<img>">>, o # "set_len", 201)
              a == LoopbackDevice_new(o # "losetup",
                                      IF o = "ok" THEN out ELSE <<>>)
              r == TempDir_drop.entries
          IN  /\ o # "ok" => out = <<>>
              /\ path' = IF o = "ok" THEN output_string(out) ELSE path
              /\ log' = log \o
                    (CASE o = "tempdir" -> <<t>>
                       [] o = "create" -> <<t, c>> \o r
                       [] o = "set_len" -> <<t, c, l>> \o r
                       [] o = "losetup" -> <<t, c, l, a>> \o r
                       [] OTHER -> <<t, c, l, a>>)
              /\ img' = CASE o = "ok" -> "present"
                         [] o \in {"set_len", "losetup"} -> "deleted"
                         [] OTHER -> img
              /\ attached' = (o = "ok")
              /\ live' = IF o = "ok" THEN Append(live, "disk") ELSE live
              /\ Proceed(o = "ok")
    /\ UNCHANGED <<prog, flavor, extra_packages, panicking, exit, mounts,
                   parts, output, env,
                   kernelversion, fs_uuid, fstab, pw, world_lines, lib>>

\* LoopbackDevice::new(img_path)? in main of src/main.rs.
LoopbackDevice_attach ==
    /\ phase = "run"
    /\ Steps[pc].k = "attach"
    /\ \E ok \in BOOLEAN, out \in LosetupOutputs :
          /\ ~ok => out = <<>>
          /\ log' = Append(log, LoopbackDevice_new(ok, out))
          /\ path' = IF ok THEN output_string(out) ELSE path
          /\ attached' = ok
          /\ live' = IF ok THEN Append(live, "root_device") ELSE live
          /\ Proceed(ok)
    /\ UNCHANGED <<prog, flavor, extra_packages, panicking, exit, mounts,
                   img, parts, output, env,
                   kernelversion, fs_uuid, fstab, pw, world_lines, lib>>

\* PartitionCommands with the creates of partitions 2 and 3 exchanged.
PartitionCommands_ThreeBeforeTwo ==
    << [c |-> "sgdisk", a |-> <<"-n", "1:2048:4095", "<loop>">>, n |-> 1, ln |-> 230],
       [c |-> "sgdisk", a |-> <<"-n", "3:413696:", "<loop>">>, n |-> 3, ln |-> 256],
       [c |-> "sgdisk", a |-> <<"-n", "2:4096:413695", "<loop>">>, n |-> 2, ln |-> 243],
       [c |-> "partprobe", a |-> <<"<loop>">>, n |-> 0, ln |-> 261] >>

\* The four commands of PartitionedLoopbackDisk::from, in order.
PartitionCommands ==
    << [c |-> "sgdisk", a |-> <<"-n", "1:2048:4095", "<loop>">>, n |-> 1, ln |-> 230],
       [c |-> "sgdisk", a |-> <<"-n", "2:4096:413695", "<loop>">>, n |-> 2, ln |-> 243],
       [c |-> "sgdisk", a |-> <<"-n", "3:413696:", "<loop>">>, n |-> 3, ln |-> 256],
       [c |-> "partprobe", a |-> <<"<loop>">>, n |-> 0, ln |-> 261] >>

\* PartitionedLoopbackDisk::from(blank_disk)?: command k is the one that
\* fails (0: none does).  On an error the LoopbackDisk it was given is
\* dropped as from returns, which is what unwinding main with only the
\* disk live does.
PartitionedLoopbackDisk_from ==
    /\ phase = "run"
    /\ Steps[pc].k = "part"
    /\ \E k \in 0..Len(PartitionCommands) :
          LET last == IF k = 0 THEN Len(PartitionCommands) ELSE k
              done == IF k = 0 THEN Len(PartitionCommands) ELSE k - 1
          IN  /\ log' = log \o
                    [i \in 1..last |->
                        run(PartitionCommands[i].c, PartitionCommands[i].a,
                            i # k, PartitionCommands[i].ln)]
              /\ parts' = parts \cup
                    ({PartitionCommands[i].n : i \in 1..done} \ {0})
              /\ path = <<>> => k = 1
              /\ Proceed(k = 0)
    /\ UNCHANGED <<prog, flavor, extra_packages, live, panicking, exit, mounts,
                   attached, img, output, env,
                   kernelversion, fs_uuid, fstab, pw, world_lines, lib, path>>

\* Mount_result with the result of the mount command not looked at.
Mount_result_MountUnchecked(o) == o # "mkdir"

\* Mount::new and Mount::bind return Ok(Self { dest }) after run(mkdir)?
\* and run(mount)? both returned Ok, and Err otherwise.
Mount_result(o) == o = "ok"

\* let m = Mount::new(...)? and let b = Mount::bind(...)?.
MountStep ==
    /\ phase = "run"
    /\ Steps[pc].k \in {"mount", "bind"}
    /\ LET s == Steps[pc]
           m == s.a[1]
       IN \E o \in {"ok", "mkdir", "mount"} :
             /\ Missing(s.p) => o # "ok"
             /\ log' = log \o (IF s.k = "mount" THEN Mount_new(m, o)
                               ELSE Mount_bind(m, o))
             /\ mounts' = IF o = "ok" THEN mounts \cup {m} ELSE mounts
             /\ live' = IF Mount_result(o) THEN Append(live, m) ELSE live
             /\ Proceed(Mount_result(o))
    /\ UNCHANGED <<prog, flavor, extra_packages, panicking, exit, attached,
                   img, parts, output, env,
                   kernelversion, fs_uuid, fstab, pw, world_lines, lib, path>>

\* let drop_command = DropCommand::new(...): the guard is registered.
DropCommand_new ==
    /\ phase = "run"
    /\ Steps[pc].k = "guard"
    /\ live' = Append(live, Steps[pc].a[1])
    /\ pc' = pc + 1
    /\ UNCHANGED <<prog, flavor, extra_packages, phase, panicking, failed, exit,
                   log, mounts, attached, img, parts, output, env,
                   kernelversion, fs_uuid, fstab, pw, world_lines, lib, path>>

\* drop(x) in main: the destructor of x runs now; if it panics the stack
\* is unwound.
ExplicitDrop ==
    /\ phase = "run"
    /\ Steps[pc].k = "drop"
    /\ LET h == Steps[pc].a[1] IN
       /\ \E i \in 1..Len(live) : live[i] = h
       /\ \E o \in DropOutcomes(h) :
             LET r == Destroy(h, o) IN
             /\ Released(r)
             /\ live' = SelectSeq(live, LAMBDA x : x # h)
             /\ IF r.panic
                THEN pc' = pc /\ phase' = "unwind" /\ panicking' = TRUE
                ELSE pc' = pc + 1 /\ phase' = phase /\ panicking' = panicking
    /\ UNCHANGED <<prog, flavor, extra_packages, failed, exit, parts, output, env,
                   kernelversion, fs_uuid, fstab, pw, world_lines, lib, path>>

\* let kernel_pkg = match flavor.as_ref() { ..., _ => bail!(...) } of
\* src/main.rs.
CheckFlavor ==
    /\ phase = "run"
    /\ Steps[pc].k = "flavor"
    /\ Proceed(flavor \in {"debian", "ubuntu"})
    /\ UNCHANGED <<prog, flavor, extra_packages, live, panicking, exit, log,
                   mounts, attached, img, parts, output, env,
                   kernelversion, fs_uuid, fstab, pw, world_lines, lib, path>>

\* if kernelversion.len() != 1 { bail!(...) } with any non-empty list let
\* through.
OneKernelVersion_NotEmpty(v) == Len(v) >= 1

\* if kernelversion.len() != 1 { bail!(...) }: what lets the run go on.
OneKernelVersion(v) == Len(v) = 1

\* let mut kernelversion = read_dir(<mnt>/lib/modules/)?...collect() and
\* the bail unless it has exactly one name.
KernelVersion ==
    /\ phase = "run"
    /\ Steps[pc].k = "kver"
    /\ \E ok \in BOOLEAN, d \in DirListings :
          /\ ~ok => d = <<>>
          /\ log' = Append(log, EntryOut(Steps[pc].c, Steps[pc].a, ok,
                                        Steps[pc].ln, d))
          /\ kernelversion' = IF ok THEN d ELSE kernelversion
          /\ Proceed(ok /\ OneKernelVersion(d))
    /\ UNCHANGED <<prog, flavor, extra_packages, live, panicking, exit, mounts,
                   attached, img, parts, output, env, fs_uuid, fstab, pw, world_lines, lib, path>>

\* The lines of text that start with "UUID=".
RECURSIVE FilterUuid(_)
FilterUuid(lines) ==
    IF lines = <<>> THEN <<>>
    ELSE (IF Head(lines) # <<>> /\ Head(lines)[1] = "UUID=" THEN <<Head(lines)>>
          ELSE <<>>) \o FilterUuid(Tail(lines))

\* collect::<String>(): the strings one after the other, nothing between.
RECURSIVE Concat(_)
Concat(strs) == IF strs = <<>> THEN <<>> ELSE Head(strs) \o Concat(Tail(strs))

\* output_stdout_string(..).split('\n').filter(|x| x.starts_with("UUID="))
\* .collect::<String>() applied to the lines blkid printed.
ProbeKey(lines) == Concat(FilterUuid(lines))

\* let pN_fs_uuid: String = ...run("blkid", ["-o", "export", <loop>pN])?...
Probe ==
    /\ phase = "run"
    /\ Steps[pc].k = "probe"
    /\ LET s == Steps[pc] IN
       \E ok \in BOOLEAN, out \in ProbeOutputs :
          /\ Missing(s.p) => ~ok
          /\ ~ok => out = <<>>
          /\ log' = Append(log, EntryOut(s.c, s.a, ok, s.ln, out))
          /\ fs_uuid' = IF ok THEN [fs_uuid EXCEPT ![s.p] = ProbeKey(out)]
                        ELSE fs_uuid
          /\ Proceed(ok)
    /\ UNCHANGED <<prog, flavor, extra_packages, live, panicking, exit, mounts,
                   attached, img, parts, output, env, kernelversion, fstab, pw, world_lines, lib, path>>

\* writeln!(fstab, "{} ...", pN_fs_uuid)?: the key, then the rest.
FstabLine(s) == (IF s.p = 0 THEN <<>> ELSE fs_uuid[s.p]) \o <<s.a[2]>>

WriteFstab ==
    /\ phase = "run"
    /\ Steps[pc].k = "fstab"
    /\ LET s == Steps[pc] IN
       \E ok \in BOOLEAN :
          /\ log' = Append(log, Entry(s.c, s.a, ok, s.ln))
          /\ fstab' = IF ok THEN Append(fstab, FstabLine(s)) ELSE fstab
          /\ Proceed(ok)
    /\ UNCHANGED <<prog, flavor, extra_packages, live, panicking, exit, mounts,
                   attached, img, parts, output, env, kernelversion, fs_uuid, pw, world_lines, lib, path>>

\* The password is settled (the option is read here for the first time),
\* then Command::new("chroot")...spawn()?, two writeln!(stdin)?, then
\* wait_with_output()?: the exit status of passwd is not looked at.  A
\* writeln that fails returns Err with what was written before it.
Passwd ==
    /\ phase = "run"
    /\ Steps[pc].k = "passwd"
    /\ \E arg \in RootPasswdInputs, stream \in SampleStreams,
          o \in {"spawn", "write1", "write2", "exit0", "exit1"} :
          LET v == RootPasswd(arg, stream)
          IN  /\ arg.some => stream = CHOOSE t \in SampleStreams : TRUE
              /\ args_root_passwd' = arg
              /\ root_passwd' = v
              /\ passwd_stdin' =
                     CASE o \in {"spawn", "write1"} -> <<>>
                       [] o = "write2" -> <<PasswdLine(v)>>
                       [] OTHER -> <<PasswdLine(v), PasswdLine(v)>>
              /\ log' = IF o = "spawn" THEN log
                        ELSE Append(log, Entry(Steps[pc].c, Steps[pc].a,
                                               o = "exit0", Steps[pc].ln))
              /\ Proceed(o \in {"exit0", "exit1"})
    /\ UNCHANGED <<prog, flavor, extra_packages, live, panicking, exit, mounts,
                   attached, img, parts, output, env,
                   kernelversion, fs_uuid, fstab, world_lines, lib, path>>

\* std::fs::copy(img_path, output_file)? (bin) or std::fs::rename (main).
\* A copy that fails may have written part of the output file.
Export ==
    /\ phase = "run"
    /\ Steps[pc].k = "export"
    /\ \E ok \in BOOLEAN, partial \in BOOLEAN :
          /\ partial => (~ok /\ Steps[pc].c = "fs::copy")
          /\ log' = Append(log, Entry(Steps[pc].c, Steps[pc].a, ok, Steps[pc].ln))
          /\ output' = (output \/ ok \/ partial)
          /\ img' = IF ok /\ Steps[pc].c = "fs::rename" THEN "renamed" ELSE img
          /\ Proceed(ok)
    /\ UNCHANGED <<prog, flavor, extra_packages, live, panicking, exit, mounts,
                   attached, parts, env,
                   kernelversion, fs_uuid, fstab, pw, world_lines, lib, path>>

\* Ok(()) at the end of main: the locals still live go out of scope.
Return ==
    /\ phase = "run"
    /\ Steps[pc].k = "return"
    /\ phase' = "unwind"
    /\ UNCHANGED <<prog, flavor, extra_packages, pc, live, panicking, failed,
                   exit, log, mounts, attached, img, parts, output, env,
                   kernelversion, fs_uuid, fstab, pw, world_lines, lib, path>>

\* Leaving main (return or panic): the last declared live local is dropped.
\* A destructor that panics while a panic is unwinding aborts the process.
Unwind ==
    /\ phase = "unwind"
    /\ live # <<>>
    /\ LET h == live[Len(live)] IN
       \E o \in DropOutcomes(h) :
          LET r == Destroy(h, o) IN
          /\ Released(r)
          /\ live' = SubSeq(live, 1, Len(live) - 1)
          /\ IF r.panic /\ panicking
             THEN phase' = "exit" /\ exit' = "abort" /\ panicking' = panicking
             ELSE phase' = phase /\ exit' = exit
                  /\ panicking' = (panicking \/ r.panic)
    /\ UNCHANGED <<prog, flavor, extra_packages, pc, failed, parts, output, env,
                   kernelversion, fs_uuid, fstab, pw, world_lines, lib, path>>

\* The process ends: status 0 for Ok, an error status for Err or a panic.
Exit ==
    /\ phase = "unwind"
    /\ live = <<>>
    /\ phase' = "exit"
    /\ exit' = IF panicking THEN "panic" ELSE IF failed THEN "err" ELSE "ok"
    /\ UNCHANGED <<prog, flavor, extra_packages, pc, live, panicking, failed,
                   log, mounts, attached, img, parts, output, env,
                   kernelversion, fs_uuid, fstab, pw, world_lines, lib, path>>

Next ==
    \/ ParseArgs
    \/ RunCommand
    \/ FileOp
    \/ LoopbackDisk_new
    \/ LoopbackDevice_attach
    \/ PartitionedLoopbackDisk_from
    \/ MountStep
    \/ DropCommand_new
    \/ ExplicitDrop
    \/ CheckFlavor
    \/ KernelVersion
    \/ Probe
    \/ WriteFstab
    \/ Passwd
    \/ Export
    \/ Return
    \/ Unwind
    \/ Exit

Spec == Init /\ [][Next]_vars

(***************************************************************************)
(* The library functions of src/lib.rs called on their own: the blank file *)
(* of LoopbackDisk::new and run_with_env.                                  *)
(***************************************************************************)
\* main has not started and does not run.
MainIdle ==
    /\ prog = "bin"
    /\ flavor = "debian"
    /\ extra_packages = <<>>
    /\ env = "any"
    /\ phase = "parse"
    /\ pc = 1
    /\ live = <<>>
    /\ panicking = FALSE
    /\ failed = FALSE
    /\ exit = "none"
    /\ log = <<>>
    /\ mounts = {}
    /\ attached = FALSE
    /\ path = <<>>
    /\ img = "none"
    /\ parts = {}
    /\ output = FALSE
    /\ kernelversion = <<>>
    /\ fs_uuid = [p \in {2, 3, 4} |-> <<>>]
    /\ fstab = <<>>
    /\ args_root_passwd = None
    /\ root_passwd = <<>>
    /\ passwd_stdin = <<>>
    /\ world_lines = <<>>

InitLib ==
    /\ MainIdle
    /\ file_len = <<>>
    /\ child = NoChild
    /\ spawned = <<>>
    /\ key = <<>>
    /\ ret = NoRet
    /\ \/ /\ fn = "LoopbackDisk::new"
          /\ size_in_gb \in SizeInputs
          /\ build \in Builds
          /\ command = NoCommand
          /\ blkid_stdout = <<>>
       \/ /\ fn = "run_with_env"
          /\ size_in_gb = <<>>
          /\ build = "release"
          /\ command \in CommandInputs
          /\ blkid_stdout = <<>>
       \/ /\ fn = "fs_uuid"
          /\ size_in_gb = <<>>
          /\ build = "release"
          /\ command = NoCommand
          /\ blkid_stdout \in BlkidStdouts

\* LoopbackDisk::new up to drop(img): tempdir()?, File::create(&img_path)?,
\* img.set_len((size_in_gb * 1024 * 1024 * 1024).try_into()?)?.  The product
\* is a usize: where it overflows a build with overflow checks panics and a
\* build without them goes on with the product cut to the word.  A usize
\* always fits the u64 of try_into; set_len refuses what does not fit an
\* off_t and may fail for any length.
CreateBlankFile ==
    /\ fn = "LoopbackDisk::new"
    /\ ~ret.done
    /\ \E o \in {"tempdir", "create", "set_len", "ok"} :
          LET bytes == SizeInBytes_Wrapping(size_in_gb)
              panics == build = "debug" /\ SizeOverflows(size_in_gb)
          IN  /\ o = "ok" => FitsOffT(bytes)
              /\ file_len' =
                     CASE o = "tempdir" -> <<>>
                       [] o = "create" -> <<>>
                       [] panics \/ o = "set_len" -> <<0, 0, 0, 0>>
                       [] OTHER -> bytes
              /\ ret' =
                     CASE o = "tempdir" -> Err(<<"tempdir">>)
                       [] o = "create" -> Err(<<"File::create">>)
                       [] panics -> Panic(<<"attempt to multiply with overflow">>)
                       [] o = "set_len" -> Err(<<"set_len">>)
                       [] OTHER -> Ok(<<>>, <<>>)
    /\ UNCHANGED <<prog, flavor, extra_packages, phase, pc, live, panicking,
                   failed, exit, log, mounts, attached, img, parts, output, env,
                   kernelversion, fs_uuid, fstab, pw, world_lines,
                   fn, size_in_gb, build,
                   command, child, spawned, blkid_stdout, key, path>>

\* run_with_env(exe, args, env_vars): Command::new(exe), every arg, every
\* env var, cmd.output()?, then bail! unless the status is a success.
run_with_env ==
    /\ fn = "run_with_env"
    /\ ~ret.done
    /\ \E c \in ChildOutcomes :
          /\ child' = c
          /\ spawned' = Append(spawned, command)
          /\ ret' = IF ~c.spawn THEN Err(<<"No such file or directory">>)
                    ELSE IF ~success(c.status) THEN Err(CommandFailed(c))
                    ELSE Ok(c.stdout, c.stderr)
    /\ UNCHANGED <<prog, flavor, extra_packages, phase, pc, live, panicking,
                   failed, exit, log, mounts, attached, img, parts, output, env,
                   kernelversion, fs_uuid, fstab, pw, world_lines,
                   fn, size_in_gb, build,
                   file_len, command, blkid_stdout, key, path>>

\* let p3_fs_uuid: String = output_stdout_string(&run("blkid", ...)?)
\* .split('\n').filter(|x| x.starts_with("UUID=")).collect::<String>()
\* once blkid has exited zero with blkid_stdout on its stdout.
FsUuid ==
    /\ fn = "fs_uuid"
    /\ ~ret.done
    /\ key' = ProbeKey(Split(output_string(blkid_stdout)))
    /\ ret' = Ok(blkid_stdout, <<>>)
    /\ UNCHANGED <<prog, flavor, extra_packages, phase, pc, live, panicking,
                   failed, exit, log, mounts, attached, img, parts, output, env,
                   kernelversion, fs_uuid, fstab, pw, world_lines,
                   fn, size_in_gb, build,
                   file_len, command, child, spawned, blkid_stdout, path>>

NextLib == CreateBlankFile \/ run_with_env \/ FsUuid

SpecLib == InitLib /\ [][NextLib]_vars


(***************************************************************************)
(* Properties.                                                             *)
(***************************************************************************)
\* The order in which main creates the mounts.
CreationOrder == <<"root", "efi", "dev", "proc", "sys">>

\* The sets of mounts that are a prefix of the creation order.
PrefixSets == {{CreationOrder[i] : i \in 1..n} : n \in 0..Len(CreationOrder)}

Reverse(s) == [i \in 1..Len(s) |-> s[Len(s) + 1 - i]]

IsUmount(e) == e.cmd = "umount"

IsDetach(e) == e.cmd = "losetup" /\ e.arg[1] = "-d"

IsAttach(e) == e.cmd = "losetup" /\ e.arg[1] = "--show"

IsMount(e) == e.cmd = "mount"

IsChroot(e) == e.cmd = "chroot"

\* The mount points of the umount commands issued so far, in order.
UmountSeq ==
    LET u == SelectSeq(log, IsUmount) IN [i \in 1..Len(u) |-> u[i].arg[1]]

\* C1: on a successful run the active mounts are at every instant a prefix
\* of the creation order root, EFI, /dev, /proc, /sys, and the mounts are
\* unmounted in the exact reverse of that order.
C1_PrefixAndExactReverse ==
    exit = "ok" =>
        /\ \A i \in DOMAIN log : log[i].mounts \in PrefixSets
        /\ UmountSeq = Reverse(CreationOrder)

\* C2: losetup -d is never invoked while the root mount, the EFI mount or
\* a bind mount under the root mount is active, whatever command fails.
C2_NoDetachWhileMounted ==
    \A i \in DOMAIN log : IsDetach(log[i]) => log[i].mounts = {}

\* C3: umount of a mount point is never invoked while a mount nested under
\* it is still active, on any exit path.
C3_NoUmountOverNested ==
    \A i \in DOMAIN log :
        IsUmount(log[i]) => NestedUnder(log[i].arg[1]) \cap log[i].mounts = {}

IsExport(e) ==
    e.cmd \in {"fs::copy", "fs::rename"} /\ e.arg[2] = "<output_file>"

\* C6: on a successful run the image is copied or renamed to the output
\* path only after all mounts were released and the loop device detached.
C6_ExportAfterTeardown ==
    exit = "ok" =>
        \A i \in DOMAIN log :
            IsExport(log[i]) => log[i].mounts = {} /\ ~log[i].attached

\* C7: the backing image and its working directory are deleted or renamed
\* only after all mounts are unmounted and the loop device is detached.
C7_ImageOutlivesDependents ==
    \A i \in DOMAIN log :
        log[i].cmd \in {"remove_dir_all", "fs::rename"} =>
            log[i].mounts = {} /\ ~log[i].attached

\* What was acquired, in order: the loop device and the mounts.
AcquiredSeq ==
    LET a == SelectSeq(log, LAMBDA e : e.ok /\ (IsAttach(e) \/ IsMount(e)))
    IN  [i \in 1..Len(a) |->
            IF IsAttach(a[i]) THEN "loop" ELSE a[i].arg[Len(a[i].arg)]]

\* What was released, in order.
ReleasedSeq ==
    LET r == SelectSeq(log, LAMBDA e : e.ok /\ (IsDetach(e) \/ IsUmount(e)))
    IN  [i \in 1..Len(r) |-> IF IsDetach(r[i]) THEN "loop" ELSE r[i].arg[1]]

\* C8: when the pipeline has stopped, by completing or because a step
\* failed, every mount it made is unmounted and the loop device detached,
\* and the releases came in the reverse order of the acquisitions.
C8_ReleasedInReverseOnExit ==
    exit \in {"ok", "err"} =>
        /\ mounts = {}
        /\ ~attached
        /\ ReleasedSeq = Reverse(AcquiredSeq)

\* What a destructor issues: sync, umount, losetup -d, the removal of the
\* working directory and the command of the guard.
IsRelease(e) ==
    \/ e.cmd \in {"sync", "umount", "remove_dir_all"}
    \/ IsDetach(e)
    \/ e.cmd = "chroot" /\ e.arg = <<"<mnt>", "openrc", "shutdown">>

\* An external tool run by a step of the pipeline (not by a destructor).
IsToolStep(e) == e.cmd \notin InProcess /\ ~IsRelease(e)

\* C9: after an external tool of the pipeline exited non-zero, the
\* chrooted passwd included, no later step is executed (only releases
\* follow), nothing is written to the output path and the process does
\* not end in success.
C9_NonZeroExitIsFatal ==
    \A i \in DOMAIN log :
        (IsToolStep(log[i]) /\ ~log[i].ok) =>
            /\ \A j \in DOMAIN log : j > i => IsRelease(log[j])
            /\ ~output
            /\ exit # "ok"

\* C10: with a missing or unsupported --flavor no file is created and no
\* command is issued, and the process does not end in success.
C10_BadFlavorTouchesNothing ==
    flavor \notin OsFlavor => log = <<>> /\ exit # "ok"

IsMkinitfs(e) == e.cmd = "chroot" /\ Len(e.arg) >= 2 /\ e.arg[2] = "mkinitfs"

IsReadModules(e) == e.cmd = "read_dir" /\ e.ok

\* C11: on the Alpine path, when <mnt>/lib/modules/ holds no entry or two
\* or more, the run fails and mkinitfs is never invoked; when it holds
\* exactly one, the next thing the run does is invoke mkinitfs with the
\* name of that entry as the kernel version, and it does not end before.
C11_KernelVersionCount ==
    /\ \A i \in DOMAIN log :
          IsReadModules(log[i]) =>
             IF Len(log[i].out) = 1
             THEN /\ i < Len(log) =>
                        /\ IsMkinitfs(log[i + 1])
                        /\ log[i + 1].arg[Len(log[i + 1].arg)] = log[i].out[1]
                  /\ exit # "none" => i < Len(log)
             ELSE /\ failed
                  /\ exit # "ok"
                  /\ \A j \in DOMAIN log : ~IsMkinitfs(log[j])
    /\ \A j \in DOMAIN log :
          IsMkinitfs(log[j]) => j > 1 /\ IsReadModules(log[j - 1])

\* A run that ended in an error because <mnt>/lib/modules/ held two
\* entries.
C11_Witness ==
    /\ exit = "err"
    /\ \E i \in DOMAIN log : IsReadModules(log[i]) /\ Len(log[i].out) = 2

\* The fstab lines of a given partition: the line ends with the text that
\* follows the key in the format string.
IsRootLine(l) ==
    l[Len(l)] \in {" / ext4 defaults,errors=remount-ro 0 1",
                   " / ext4 errors=remount-ro 0 1"}

IsEfiLine(l) == l[Len(l)] = " /boot/efi vfat defaults 0 2"

IsSwapLine(l) == l[Len(l)] = " swap swap defaults 0 0"

NumLines(P(_)) == Cardinality({i \in DOMAIN fstab : P(fstab[i])})

\* C12: on a successful run, whatever the flavor, the fstab holds exactly
\* one line for the root partition, exactly one for the EFI partition and
\* a swap line if and only if the partitioning created a swap partition
\* (partition 4); each of these lines starts with UUID=, whatever blkid
\* printed.
C12_FstabEntries ==
    exit = "ok" =>
        /\ NumLines(IsRootLine) = 1
        /\ NumLines(IsEfiLine) = 1
        /\ NumLines(IsSwapLine) = (IF 4 \in parts THEN 1 ELSE 0)
        /\ \A i \in DOMAIN fstab :
              (IsRootLine(fstab[i]) \/ IsEfiLine(fstab[i]) \/ IsSwapLine(fstab[i]))
                  => fstab[i][1] = "UUID="

\* The device of partition n of the loop device.
PartitionDevice(n) ==
    CASE n = 1 -> "<loop>p1" [] n = 2 -> "<loop>p2" [] n = 3 -> "<loop>p3"
      [] OTHER -> "<loop>p4"

\* Entry e is a command on the device of a partition that is not in the
\* table.
OnMissingPartition(e) ==
    \E n \in 1..4, i \in DOMAIN e.arg :
        e.arg[i] = PartitionDevice(n) /\ n \notin parts

\* Every tool did its work wherever the disk state it acts on exists:
\* nothing failed but commands on the device of a missing partition.
ToolsWellBehaved ==
    \A i \in DOMAIN log : ~log[i].ok => OnMissingPartition(log[i])

\* println!("> set root password as {}", root_passwd) comes right before
\* chroot <mnt> passwd is run.
PasswordPrinted ==
    \E i \in DOMAIN log : log[i].cmd = "chroot" /\ log[i].arg = <<"<mnt>", "passwd">>

\* C13: with flavor Alpine, no extra packages and tools that fail only on
\* the device of a partition that was never created, the run completes
\* successfully, the fstab has 3 lines and the generated root password is
\* printed.
C13_AlpineScenario ==
    (/\ prog = "bin"
     /\ flavor = "alpine"
     /\ extra_packages = <<>>
     /\ ToolsWellBehaved
     /\ exit # "none")
        => (exit = "ok" /\ Len(fstab) = 3 /\ PasswordPrinted)

AptInstall == <<"<mnt>", "apt", "install", "-y">>

IsAptInstall(e) ==
    e.cmd = "chroot" /\ Len(e.arg) >= 4 /\ SubSeq(e.arg, 1, 4) = AptInstall

\* Entry e was handed one of the caller's extra packages.
GivenExtraPackage(e) ==
    \E k \in DOMAIN extra_packages, j \in DOMAIN e.arg :
        e.arg[j] = extra_packages[k]

\* C14: on the Debian and Ubuntu paths the extra packages of the caller
\* are handed, all of them, in the order given and nothing else, to one
\* chroot <mnt> apt install -y command that follows the install of the base
\* packages; that command is not issued for an empty list, and no other
\* command gets any of them.  On the Alpine path no command gets them.
C14_ExtraPackages ==
    LET inst == SelectSeq(log, IsAptInstall) IN
    /\ \A i \in DOMAIN log :
          GivenExtraPackage(log[i]) =>
              /\ flavor \in {"debian", "ubuntu"}
              /\ Len(inst) = 2
              /\ log[i] = inst[2]
    /\ flavor \in {"debian", "ubuntu"} =>
          /\ Len(inst) <= 2
          /\ Len(inst) >= 1 => inst[1].arg = AptInstall \o BasePackages(flavor)
          /\ Len(inst) = 2 =>
                /\ inst[1].ok
                /\ extra_packages # <<>>
                /\ inst[2].arg = AptInstall \o extra_packages
          /\ (Len(inst) >= 1 /\ inst[1].ok /\ extra_packages # <<>>
                /\ exit # "none") => Len(inst) = 2
    /\ flavor \notin {"debian", "ubuntu"} => inst = <<>>

\* A Debian run given two different extra packages ended in success.
C14_Witness ==
    /\ exit = "ok"
    /\ flavor = "debian"
    /\ Len(extra_packages) = 2
    /\ extra_packages[1] # extra_packages[2]
    /\ \E i \in DOMAIN log : GivenExtraPackage(log[i])

\* sgdisk -n N:first:last: create partition N.
IsCreate(e) == e.cmd = "sgdisk" /\ e.arg[1] = "-n"

IsRescan(e) == e.cmd = "partprobe"

\* The -n arguments of the three creates, by partition index.
PartitionSpecs == <<"1:2048:4095", "2:4096:413695", "3:413696:">>

\* The partition-table commands issued so far, in order.
TableCommands == SelectSeq(log, LAMBDA e : e.cmd \in {"sgdisk", "partprobe"})

\* C15: the partition-table commands are the creates of partitions 1, 2
\* and 3 in that order and then the re-scan; once one of them failed no
\* other create and no re-scan is issued, the run is failing and only
\* releases follow; no command undoes the partitions created before, which
\* stay in the table.
C15_PartitionOrderAndAbort ==
    LET t == TableCommands IN
    /\ Len(t) <= 4
    /\ \A i \in DOMAIN t :
          /\ i <= 3 => IsCreate(t[i]) /\ t[i].arg[2] = PartitionSpecs[i]
          /\ i = 4 => IsRescan(t[i])
          /\ i < Len(t) => t[i].ok
    /\ \A i \in DOMAIN log :
          (log[i].cmd \in {"sgdisk", "partprobe"} /\ ~log[i].ok) =>
              /\ failed
              /\ exit # "ok"
              /\ \A j \in DOMAIN log : j > i => IsRelease(log[j])
              /\ parts = 1..(IF Len(t) > 3 THEN 3 ELSE Len(t) - 1)

\* The create of partition 2 failed after partition 1 was created, and the
\* process ended with an error.
C15_Witness ==
    /\ exit = "err"
    /\ Len(TableCommands) = 2
    /\ ~TableCommands[2].ok
    /\ parts = {1}

\* C16: every partition-table edit is issued while the backing image is
\* attached to the loop device, after the attach succeeded, and its target
\* is the path of the loop device; none is issued before the attach.
C16_TableEditsOnLoopDevice ==
    \A i \in DOMAIN log :
        IsCreate(log[i]) =>
            /\ log[i].attached
            /\ \E j \in 1..(i - 1) : IsAttach(log[j]) /\ log[j].ok
            /\ log[i].arg[Len(log[i].arg)] = "<loop>"

\* The places in the log of the entries that satisfy P.
Where(P(_)) == {i \in DOMAIN log : P(log[i])}

\* Every entry that satisfies P comes before every entry that satisfies Q,
\* and there is one of each.
Before(P(_), Q(_)) ==
    /\ Where(P) # {}
    /\ Where(Q) # {}
    /\ \A i \in Where(P), j \in Where(Q) : i < j

IsMapWrite(e) ==
    e.cmd \in {"File::create", "writeln"} /\ e.arg[1] = "<mnt>/boot/grub/device.map"

IsGrubInstall(e) == e.cmd = "grub-install"

IsGrubMkconfig(e) == e.cmd = "chroot" /\ e.arg[2] = "grub-mkconfig"

IsMapRemove(e) ==
    e.cmd = "chroot" /\ e.arg = <<"<mnt>", "rm", "/boot/grub/device.map">>

IsRootUmount(e) == IsUmount(e) /\ e.arg[1] = "root"

\* C17: on a successful run the device map is written before grub-install,
\* grub-mkconfig runs after grub-install, and the device map is removed
\* after grub-mkconfig and before the root is unmounted and the image is
\* copied or renamed; it is not written again after it was removed.
C17_GrubOrder ==
    exit = "ok" =>
        /\ Before(IsMapWrite, IsGrubInstall)
        /\ Before(IsGrubInstall, IsGrubMkconfig)
        /\ Before(IsGrubMkconfig, IsMapRemove)
        /\ Before(IsMapWrite, IsMapRemove)
        /\ Before(IsMapRemove, IsRootUmount)
        /\ Before(IsMapRemove, IsExport)
        /\ \A i \in Where(IsMapRemove) : log[i].ok /\ "root" \in log[i].mounts

\* A successful run of the Ubuntu path of src/main.rs in which the device
\* map was written and removed.
C17_Witness ==
    /\ exit = "ok"
    /\ prog = "main"
    /\ flavor = "ubuntu"
    /\ Where(IsMapWrite) # {}
    /\ Where(IsMapRemove) # {}
    /\ output

\* C18: in every run in which the loop attach succeeded, losetup -d is
\* invoked exactly once before the process ends, never twice and never
\* not at all, whichever step fails after the attach.
C18_DetachExactlyOnce ==
    (\E i \in DOMAIN log : IsAttach(log[i]) /\ log[i].ok) =>
        /\ Cardinality(Where(IsDetach)) <= 1
        /\ exit # "none" => Cardinality(Where(IsDetach)) = 1

IsShutdown(e) == e.cmd = "chroot" /\ e.arg = <<"<mnt>", "openrc", "shutdown">>

\* The apk add that brings busybox-openrc, ended well: the guard is
\* registered in the statement that follows it.
IsOpenrcInstalled(e) ==
    /\ e.cmd = "chroot"
    /\ e.arg = <<"<mnt>", "apk", "add", "grub-efi", "mkinitfs", "alpine-conf",
                 "busybox-openrc">>
    /\ e.ok

IsBindUmount(e) == IsUmount(e) /\ e.arg[1] \in {"dev", "proc", "sys"}

IsRcUpdateAdd(e) ==
    e.cmd = "chroot" /\ Len(e.arg) >= 3 /\ e.arg[2] = "rc-update" /\ e.arg[3] = "add"

\* C19: on the Alpine path, once the guard is registered after the apk add
\* of busybox-openrc, chroot <mnt> openrc shutdown is run exactly once on
\* every path to the end of the process, before any umount of the /dev,
\* /proc and /sys bind mounts and before any rc-update add.
C19_ShutdownGuard ==
    LET down == Where(IsShutdown)
        inst == Where(IsOpenrcInstalled)
    IN  /\ \A k, l \in down : k = l
        /\ \A k \in down : \E j \in inst : j < k
        /\ inst # {} =>
              /\ exit # "none" => down # {}
              /\ \A i \in DOMAIN log :
                    (IsBindUmount(log[i]) \/ IsRcUpdateAdd(log[i])) =>
                        \E k \in down : k < i

\* An Alpine run that failed while the guard was registered: the shutdown
\* command and the umount of a bind mount were both issued.
C19_Witness ==
    /\ exit = "err"
    /\ Where(IsShutdown) # {}
    /\ Where(IsBindUmount) # {}
    /\ Where(IsRcUpdateAdd) = {}

\* tar --sparse -C <mnt> -xf <export.tar>: the container archive is
\* extracted into the root.
IsExtract(e) == e.cmd = "tar"

\* The mounts made so far, in the order they were made.
MountedSeq ==
    LET m == SelectSeq(log, LAMBDA e : IsMount(e) /\ e.ok)
    IN  [i \in 1..Len(m) |-> m[i].arg[Len(m[i].arg)]]

\* C20 as claimed: on a successful run the mounts are made in the order
\* root, EFI, /dev, /proc, /sys and the container archive is extracted
\* into the root only with all five of them active.
C20_ExtractAfterAllMounts ==
    exit = "ok" =>
        /\ MountedSeq = CreationOrder
        /\ Where(IsExtract) # {}
        /\ \A i \in Where(IsExtract) : log[i].mounts = MountNames

\* C20, amended: on a successful run the mounts are made in the order
\* root, EFI, /dev, /proc, /sys and the container archive is extracted
\* into the root once, with the root and the EFI mount active and before
\* any of the three bind mounts is made.
C20_ExtractBeforeBindMounts ==
    exit = "ok" =>
        /\ MountedSeq = CreationOrder
        /\ Cardinality(Where(IsExtract)) = 1
        /\ \A i \in Where(IsExtract) : log[i].mounts = {"root", "efi"}

\* A successful Debian run of the bin program: the archive was extracted
\* and the five mounts were made.
C20_Witness ==
    /\ exit = "ok"
    /\ prog = "bin"
    /\ flavor = "debian"
    /\ Where(IsExtract) # {}
    /\ Len(MountedSeq) = 5

\* chroot <mnt> apt update -y, chroot <mnt> apk update.
IsRepoUpdate(e) ==
    IsChroot(e) /\ Len(e.arg) >= 3 /\ e.arg[2] \in {"apt", "apk"}
    /\ e.arg[3] = "update"

\* The install of the kernel and boot loader packages: the apt install of
\* the base packages, the first apk add.
IsBaseInstall(e) ==
    \/ IsAptInstall(e) /\ e.arg = AptInstall \o BasePackages(flavor)
    \/ /\ IsChroot(e)
       /\ e.arg = <<"<mnt>", "apk", "add", "grub-efi", "mkinitfs",
                    "alpine-conf", "busybox-openrc">>

\* The apt install of the caller's extra packages.
IsExtraInstall(e) == IsAptInstall(e) /\ ~IsBaseInstall(e)

\* The first-boot configuration of the Alpine path: setup-alpine and the
\* rc-update commands.
IsFirstBootConfig(e) ==
    IsChroot(e) /\ Len(e.arg) >= 3
    /\ (e.arg[2] = "rc-update" \/ e.arg[3] = "/sbin/setup-alpine")

\* chroot <mnt> update-initramfs -u, chroot <mnt> mkinitfs ...
IsInitramfs(e) ==
    IsChroot(e) /\ Len(e.arg) >= 2 /\ e.arg[2] \in {"update-initramfs", "mkinitfs"}

\* The fstab is created, written or printed.
IsFstabStep(e) ==
    \/ e.cmd \in {"File::create", "writeln"} /\ e.arg[1] = "<mnt>/etc/fstab"
    \/ e.cmd = "blkid"
    \/ e.cmd = "cat"

\* chroot <mnt> passwd
IsPasswd(e) == IsChroot(e) /\ e.arg = <<"<mnt>", "passwd">>

\* Every entry that satisfies P comes before every entry that satisfies Q;
\* there need be none of either.
NotAfter(P(_), Q(_)) == \A i \in Where(P), j \in Where(Q) : i < j

\* The installer states in the order of the state machine: repository
\* update, kernel and boot loader packages, extra packages, first-boot
\* configuration, each of them before the initramfs is rebuilt.
InstallerOrder ==
    /\ Before(IsRepoUpdate, IsBaseInstall)
    /\ NotAfter(IsBaseInstall, IsExtraInstall)
    /\ NotAfter(IsBaseInstall, IsFirstBootConfig)
    /\ NotAfter(IsExtraInstall, IsFirstBootConfig)
    /\ (extra_packages # <<>> /\ flavor # "alpine") => Where(IsExtraInstall) # {}
    /\ flavor = "alpine" => Where(IsFirstBootConfig) # {}
    /\ Before(IsBaseInstall, IsInitramfs)
    /\ NotAfter(IsExtraInstall, IsInitramfs)
    /\ NotAfter(IsFirstBootConfig, IsInitramfs)

\* C21 as claimed: on every successful run the installer passes through
\* repository update, kernel and boot loader install, extra packages,
\* first-boot configuration and initramfs rebuild in that order, and the
\* initramfs is rebuilt before the fstab is written and before grub-install
\* and grub-mkconfig run.
C21_InitramfsBeforeBootConfig ==
    exit = "ok" =>
        /\ InstallerOrder
        /\ Before(IsInitramfs, IsFstabStep)
        /\ Before(IsInitramfs, IsGrubInstall)
        /\ Before(IsInitramfs, IsGrubMkconfig)

\* C21, amended: on every successful run the installer passes through the
\* same states in the same order; the repository update, the package
\* installs and the first-boot configuration come before the fstab is
\* written, while the initramfs is rebuilt last, after the fstab was
\* written, after grub-install and grub-mkconfig ran and after the device
\* map was removed, and before the password is set and any mount is
\* released.
C21_InitramfsAfterBootConfig ==
    exit = "ok" =>
        /\ InstallerOrder
        /\ Before(IsRepoUpdate, IsFstabStep)
        /\ Before(IsBaseInstall, IsFstabStep)
        /\ NotAfter(IsExtraInstall, IsFstabStep)
        /\ NotAfter(IsFirstBootConfig, IsFstabStep)
        /\ Before(IsFstabStep, IsInitramfs)
        /\ Before(IsGrubInstall, IsInitramfs)
        /\ Before(IsGrubMkconfig, IsInitramfs)
        /\ Before(IsMapRemove, IsInitramfs)
        /\ Before(IsInitramfs, IsPasswd)
        /\ Before(IsInitramfs, IsUmount)
        /\ \A i \in Where(IsInitramfs) : log[i].ok /\ log[i].mounts = MountNames

\* A successful Alpine run: the first-boot configuration was made and
\* mkinitfs rebuilt the initramfs after grub-mkconfig.
C21_Witness ==
    /\ exit = "ok"
    /\ flavor = "alpine"
    /\ Where(IsFirstBootConfig) # {}
    /\ \E i \in Where(IsGrubMkconfig), j \in Where(IsInitramfs) :
           i < j /\ log[j].arg[2] = "mkinitfs"

\* A step of the boot configuration: the fstab, /etc/hosts and
\* /etc/hostname, the grub files and commands, the initramfs rebuild and,
\* on the Alpine path, the serial console line of /etc/inittab.
IsBootConfig(e) ==
    \/ IsFstabStep(e)
    \/ IsMapWrite(e) \/ IsGrubInstall(e) \/ IsMapRemove(e)
    \/ IsChroot(e) /\ Len(e.arg) >= 2
       /\ e.arg[2] \in {"grub-mkconfig", "update-initramfs", "mkinitfs", "sed"}
    \/ e.cmd \in {"File::create", "writeln"}
       /\ e.arg[1] \in {"<mnt>/etc/hosts", "<mnt>/etc/hostname",
                        "<mnt>/etc/default/grub"}

\* C22: at the end of every run in which the password command was
\* spawned, the password is the one the caller supplied, unchanged, or else a generated string of exactly 16
\* alphanumeric characters; every line written to the stdin of the one
\* chroot <mnt> passwd command is that password followed by a newline, two
\* such lines are written whenever main gets past the command (always on
\* a successful run), never more; the command comes after every step of the
\* boot configuration, with all five mounts active and before any umount.
C22_RootPassword ==
    (exit # "none" /\ Where(IsPasswd) # {}) =>
        /\ Cardinality(Where(IsPasswd)) = 1
        /\ IF args_root_passwd.some
           THEN root_passwd = args_root_passwd.v
           ELSE /\ Len(root_passwd) = 16
                /\ \A i \in DOMAIN root_passwd : root_passwd[i] \in Alphanumeric
        /\ Len(passwd_stdin) <= 2
        /\ \A i \in DOMAIN passwd_stdin :
               passwd_stdin[i] = root_passwd \o <<"\n">>
        /\ (exit = "ok" \/ Steps[pc].k # "passwd") => Len(passwd_stdin) = 2
        /\ \A i \in Where(IsPasswd) :
               /\ log[i].mounts = MountNames
               /\ \A j \in DOMAIN log :
                      /\ IsBootConfig(log[j]) => j < i
                      /\ IsUmount(log[j]) => i < j
        /\ exit = "ok" =>
               /\ Where(IsBootConfig) # {}
               /\ Where(IsUmount) # {}

\* A successful run without --root-passwd: a generated password went to
\* passwd twice and the mounts were released afterwards.
C22_Witness ==
    /\ exit = "ok"
    /\ ~args_root_passwd.some
    /\ Len(root_passwd) = 16
    /\ Len(passwd_stdin) = 2
    /\ Where(IsPasswd) # {}
    /\ Where(IsUmount) # {}

\* C23: when LoopbackDisk::new has returned, either the blank file has
\* exactly size_in_gb * 2^30 bytes, or the call failed (an Err or a panic)
\* and the file, if it was created, is empty.
C23_ExactSizeOrError ==
    (fn = "LoopbackDisk::new" /\ ret.done) =>
        IF ret.ok
        THEN Pad(file_len, WideLimbs) = SizeInBytes_Exact(size_in_gb)
        ELSE file_len \in {<<>>, <<0, 0, 0, 0>>}

\* Some part of the message is s.
Carries(message, s) == \E i \in DOMAIN message : message[i] = s

\* The message has the pieces of text, in order and next to each other.
CarriesText(message, text) ==
    \E i \in 0..(Len(message) - Len(text)) :
        SubSeq(message, i + 1, i + Len(text)) = text

\* The decimal digits of an exit code.
CodeString(n) == CASE n = 0 -> "0" [] n = 1 -> "1" [] n = 2 -> "2" [] OTHER -> "-1"

\* C24: when run_with_env has returned, it spawned the program once, with
\* the arguments and the environment variables it was given; it returned
\* Ok with the captured stdout and stderr exactly when the child was
\* spawned and exited with a success status; and for a child that exited
\* with another status the error carries the program, every argument, the
\* exit code and the captured stderr.
C24_ExecutorContract ==
    (fn = "run_with_env" /\ ret.done) =>
        /\ spawned = <<command>>
        /\ ret.ok <=> (child.spawn /\ success(child.status))
        /\ ret.ok => (ret.stdout = child.stdout /\ ret.stderr = child.stderr)
        /\ (child.spawn /\ ~success(child.status)) =>
               /\ ~ret.ok
               /\ Carries(ret.err, command.exe)
               /\ \A i \in DOMAIN command.args : Carries(ret.err, command.args[i])
               /\ ~child.status.signaled =>
                      Carries(ret.err, CodeString(child.status.code))
               /\ CarriesText(ret.err, output_string(child.stderr))

\* The tool an entry runs: the command itself or, for a chroot, the program
\* run inside the root (the script, where that program is /bin/sh).
Tool(e) ==
    IF e.cmd # "chroot" \/ Len(e.arg) < 2 THEN e.cmd
    ELSE IF e.arg[2] = "/bin/sh" THEN e.arg[4]
    ELSE e.arg[2]

\* The tools run so far.
ToolsUsed == {Tool(log[i]) : i \in DOMAIN log}

\* The tools of the Alpine path.
AlpineTools == {"apk", "/sbin/setup-alpine", "rc-update", "mkswap", "mkinitfs"}

\* The tools of the Debian and Ubuntu paths.
AptTools == {"apt", "update-initramfs"}

\* An apt install that names a kernel package.
IsKernelInstall(e) ==
    IsAptInstall(e) /\ Len(e.arg) >= 5
    /\ e.arg[5] \in {"linux-image-amd64", "linux-image-generic"}

\* C25: at the end of every run, on the Debian and Ubuntu paths the
\* install of the kernel is an apt install that names linux-image-amd64
\* (Debian) or linux-image-generic (Ubuntu) followed by systemd-sysv,
\* grub2-common, grub-efi-amd64-bin and initramfs-tools, and no command
\* runs apk, setup-alpine, rc-update, mkswap or mkinitfs; on the Alpine
\* path of the bin program no command runs apt or update-initramfs.  A
\* successful run has used the tools of its flavor.
C25_FlavorSelectsTools ==
    exit # "none" =>
        /\ flavor \in {"debian", "ubuntu"} =>
               /\ ToolsUsed \cap AlpineTools = {}
               /\ \A i \in Where(IsKernelInstall) :
                      log[i].arg =
                          <<"<mnt>", "apt", "install", "-y",
                            IF flavor = "debian" THEN "linux-image-amd64"
                            ELSE "linux-image-generic",
                            "systemd-sysv", "grub2-common",
                            "grub-efi-amd64-bin", "initramfs-tools">>
               /\ exit = "ok" =>
                      /\ Where(IsKernelInstall) # {}
                      /\ AptTools \subseteq ToolsUsed
        /\ (flavor = "alpine" /\ prog = "bin") =>
               /\ ToolsUsed \cap AptTools = {}
               /\ exit = "ok" => AlpineTools \subseteq ToolsUsed

\* A successful Ubuntu run that installed linux-image-generic.
C25_Witness ==
    /\ exit = "ok"
    /\ flavor = "ubuntu"
    /\ \E i \in Where(IsKernelInstall) :
           log[i].ok /\ log[i].arg[5] = "linux-image-generic"

\* A partition, format or mount command.
IsDiskCommand(e) ==
    e.cmd \in {"sgdisk", "partprobe", "mkfs.vfat", "mkfs.ext4", "mkswap", "mount"}

\* C26: whenever losetup --show --find exits non-zero, or exits with
\* success without printing a device path, the attach fails: no
\* LoopbackDevice is held afterwards and no partition, format or mount
\* command follows.
C26_AttachFailsWithoutPath ==
    \A i \in Where(IsAttach) :
        (~log[i].ok \/ output_string(log[i].out) = <<>>) =>
            /\ "disk" \notin {live[k] : k \in DOMAIN live}
            /\ "root_device" \notin {live[k] : k \in DOMAIN live}
            /\ \A j \in (i + 1)..Len(log) : ~IsDiskCommand(log[j])

IsEfiUmount(e) == IsUmount(e) /\ e.arg[1] = "efi"

\* C27: on every successful run in which every release command succeeded,
\* the three bind mounts are unmounted, all of them before the EFI mount,
\* the EFI mount before the root mount, and the root mount before the loop
\* device is detached; each of the releases happens once.
C27_TeardownOrder ==
    (exit = "ok" /\ \A i \in Where(IsRelease) : log[i].ok) =>
        /\ {log[i].arg[1] : i \in Where(IsBindUmount)} = {"dev", "proc", "sys"}
        /\ Cardinality(Where(IsUmount)) = 5
        /\ Cardinality(Where(IsDetach)) = 1
        /\ Before(IsBindUmount, IsEfiUmount)
        /\ Before(IsEfiUmount, IsRootUmount)
        /\ Before(IsRootUmount, IsDetach)

\* A successful run of src/main.rs with all five mounts unmounted and the
\* loop device detached, every release command having succeeded.
C27_Witness ==
    /\ exit = "ok"
    /\ prog = "main"
    /\ \A i \in Where(IsRelease) : log[i].ok
    /\ Cardinality(Where(IsUmount)) = 5
    /\ Where(IsDetach) # {}
    /\ mounts = {}
    /\ ~attached

\* The index N of the partition device <loop>pN an entry is handed, 0 when
\* it is handed none.
PartitionOf(e) ==
    IF \E j \in DOMAIN e.arg : e.arg[j] = "<loop>p1" THEN 1
    ELSE IF \E j \in DOMAIN e.arg : e.arg[j] = "<loop>p2" THEN 2
    ELSE IF \E j \in DOMAIN e.arg : e.arg[j] = "<loop>p3" THEN 3
    ELSE IF \E j \in DOMAIN e.arg : e.arg[j] = "<loop>p4" THEN 4
    ELSE 0

\* A command that formats a device, turns it into swap, probes it for a
\* UUID or mounts it.
UsesPartition(e) ==
    e.cmd \in {"mkfs.vfat", "mkfs.ext4", "mkswap", "blkid", "mount"}

\* sgdisk -n N:..: the create command for index n.
CreatesPartition(e, n) ==
    IsCreate(e) /\ e.arg[2] = PartitionSpecs[n]

\* C28: every partition device <loop>pN that a format, swap, probe or mount
\* command is handed was created by an earlier successful sgdisk -n N:..
\* command, and N is never 1.
C28_PartitionsCreatedFirst ==
    \A i \in Where(UsesPartition) :
        LET n == PartitionOf(log[i])
        IN  n # 0 =>
                /\ n \in DOMAIN PartitionSpecs
                /\ n # 1
                /\ \E j \in 1..(i - 1) : CreatesPartition(log[j], n) /\ log[j].ok

\* main is at its last step, the copy or rename to the output path, or
\* past it.
AtLastStep == Steps[pc].k \in {"export", "return"}

\* C29: the file at the output path is written only by the copy or rename
\* that is the last step of main: the output is never written without that
\* step having been issued; a run that failed or panicked at an earlier
\* step has left the output untouched; and the step is issued once, after
\* the password command, with nothing but releases after it.
C29_OutputWrittenLast ==
    /\ output => Where(IsExport) # {}
    /\ ((failed \/ panicking \/ exit \in {"err", "panic", "abort"})
        /\ ~AtLastStep) => ~output
    /\ (output \/ exit # "none") =>
           /\ Cardinality(Where(IsExport)) <= 1
           /\ \A i \in Where(IsExport) :
                  /\ AtLastStep
                  /\ \E j \in 1..(i - 1) : IsPasswd(log[j])
                  /\ \A j \in (i + 1)..Len(log) : IsRelease(log[j])

\* A run that got as far as grub-install and then ended with an error
\* before its last step: the output was not written.
C29_Witness ==
    /\ exit = "err"
    /\ ~AtLastStep
    /\ Where(IsGrubInstall) # {}
    /\ ~output

\* mkdir -p dest of Mount::new or Mount::bind, or their mount command.
IsMountAttempt(e) ==
    \/ e.cmd = "mkdir" /\ e.arg[Len(e.arg)] \in MountNames
    \/ IsMount(e)

\* The destination of a mkdir, mount or umount entry.
Dest(e) == e.arg[Len(e.arg)]

\* C30: a Mount is held only for a mount that is established and not yet
\* unmounted.  At the end of every run: a mkdir or mount command of
\* Mount::new or Mount::bind that failed made main return an error, and no
\* umount of its destination was issued; every umount is of a destination
\* whose mount command succeeded before it; and no destination is
\* unmounted twice.
C30_HandleOnlyForEstablishedMount ==
    /\ \A k \in DOMAIN live : live[k] \in MountNames => live[k] \in mounts
    /\ exit # "none" =>
           /\ \A i \in Where(IsMountAttempt) :
                  ~log[i].ok =>
                      /\ failed
                      /\ \A j \in Where(IsUmount) : Dest(log[j]) # Dest(log[i])
           /\ \A i \in Where(IsUmount) :
                  /\ \E j \in 1..(i - 1) :
                         IsMount(log[j]) /\ log[j].ok /\ Dest(log[j]) = Dest(log[i])
                  /\ \A j \in Where(IsUmount) :
                         j # i => Dest(log[j]) # Dest(log[i])

\* A run in which the mount command of the EFI mount failed after the root
\* was mounted: the root was unmounted on the way out, the EFI destination
\* never.
C30_Witness ==
    /\ exit # "none"
    /\ \E i \in Where(IsMount) : ~log[i].ok /\ Dest(log[i]) = "efi"
    /\ \E i \in Where(IsUmount) : Dest(log[i]) = "root"
    /\ \A i \in Where(IsUmount) : Dest(log[i]) # "efi"

(***************************************************************************)
(* Termination.  Every action of Next is one step of main together with    *)
(* the commands it waits for; when every command returns, a step that is   *)
(* enabled is taken.                                                       *)
(***************************************************************************)
SpecFair == Spec /\ WF_vars(Next)

\* One step of the program: a step of main is left for the next one or for
\* the way out, never taken again; on the way out every step drops one more
\* local; a call that failed leaves main.
NoRetry ==
    /\ pc' >= pc
    /\ (phase = "run" /\ phase' = "run") => pc' = pc + 1
    /\ (failed' /\ ~failed) => (phase = "run" /\ phase' = "unwind")
    /\ phase = "unwind" => (phase' # "run" /\ Len(live') < Len(live) + 1
                            /\ (phase' = "unwind" => Len(live') = Len(live) - 1))
    /\ phase = "exit" => phase' = "exit"

\* No more commands than three for every step of main.
Bounded == Len(log) <= 3 * Len(Steps)

\* C31: when every command returns, every run ends (in success, in an error,
\* in a panic or in an abort) after a bounded number of commands, and no step
\* is taken again after it failed, the rc-update loop included.
C31_TerminatesWithoutRetry ==
    /\ <>(phase = "exit")
    /\ [][NoRetry]_vars
    /\ [](Bounded /\ (failed => phase # "run"))

\* A run that ended in an error at an rc-update add that is not the first of
\* the loop, called once.
C31_Witness ==
    /\ phase = "exit"
    /\ exit = "err"
    /\ \E i \in 1..Len(log) :
          /\ log[i].cmd = "chroot"
          /\ Len(log[i].arg) = 5
          /\ log[i].arg[2] = "rc-update" /\ log[i].arg[3] = "add"
          /\ log[i].arg[4] = "hostname"
          /\ ~log[i].ok
          /\ \A j \in 1..Len(log) : (log[j].arg = log[i].arg) => j = i

\* C32: the key taken from a blkid output is exactly one line of that output
\* that begins with UUID=: never empty, never several lines joined, and
\* nothing of a line with another key (TYPE=, PARTUUID=) is in it.
C32_KeyIsOneUuidLine ==
    (fn = "fs_uuid" /\ ret.done) =>
        LET lines == Split(output_string(blkid_stdout)) IN
        /\ key # <<>>
        /\ key[1] = "UUID="
        /\ \E i \in DOMAIN lines : lines[i] = key

\* chroot <mnt> /bin/sh -x /sbin/setup-alpine ...
IsSetupAlpine(e) ==
    e.cmd = "chroot" /\ Len(e.arg) > 3 /\ e.arg[4] = "/sbin/setup-alpine"

\* std::fs::read_to_string(<mnt>/etc/apk/world)
IsWorldRead(e) == e.cmd = "read_to_string" /\ e.arg = <<"<mnt>/etc/apk/world">>

\* chroot <mnt> apk add --update-cache ...
IsWorldInstall(e) ==
    /\ e.cmd = "chroot"
    /\ Len(e.arg) > 3
    /\ e.arg[2] = "apk" /\ e.arg[3] = "add" /\ e.arg[4] = "--update-cache"

\* The standard packages of that apk add.
StandardPackages == <<"alpine-base", "linux-virt", "openssh", "chrony">>

\* C33: on the Alpine path /etc/apk/world is read right after setup-alpine
\* returned successfully, and the apk add that follows is given the standard
\* packages and then every non-empty line of the file, each once and in file
\* order.
C33_WorldPackagesInstalled ==
    LET n == Len(log) IN
    /\ (n > 0 /\ IsWorldRead(log[n])) =>
          /\ flavor = "alpine"
          /\ n > 1 /\ IsSetupAlpine(log[n - 1]) /\ log[n - 1].ok
    /\ (n > 0 /\ IsWorldInstall(log[n])) =>
          /\ n > 2
          /\ IsWorldRead(log[n - 1]) /\ log[n - 1].ok
          /\ IsSetupAlpine(log[n - 2]) /\ log[n - 2].ok
          /\ LET lines == Lines(log[n - 1].out)
                 named == {i \in DOMAIN lines : lines[i] # ""}
                 args == log[n].arg
                 m == Cardinality(named)
                 first == Len(args) - m
             IN  /\ first >= 7
                 /\ SubSeq(args, first - 3, first) = StandardPackages
                 /\ \E f \in [1..m -> named] :
                       /\ \A k \in 1..m : args[first + k] = lines[f[k]]
                       /\ \A k \in 1..(m - 1) : f[k] < f[k + 1]

\* The world file named alpine-base twice, with an empty line between its
\* lines and a newline at its end; the apk add was given the three names and
\* exited zero.
C33_Witness ==
    \E n \in 1..Len(log) :
        /\ IsWorldInstall(log[n])
        /\ log[n].ok
        /\ log[n - 1].out =
              <<"alpine-base", "\n", "\n", "busybox-openrc", "\n", "alpine-base",
                "\n">>
        /\ SubSeq(log[n].arg, Len(log[n].arg) - 2, Len(log[n].arg)) =
              <<"alpine-base", "busybox-openrc", "alpine-base">>
        /\ Len(log[n].arg) = 16

\* chroot <mnt> rc-update add <service> <runlevel>
IsRcAdd(e) ==
    e.cmd = "chroot" /\ Len(e.arg) = 5 /\ e.arg[2] = "rc-update"
    /\ e.arg[3] = "add"

\* chroot <mnt> rc-update delete <service> sysinit
IsRcDelete(e, service) ==
    e.cmd = "chroot"
    /\ e.arg = <<"<mnt>", "rc-update", "delete", service, "sysinit">>

\* chroot <mnt> rc-update ...
IsRcUpdate(e) == e.cmd = "chroot" /\ Len(e.arg) > 1 /\ e.arg[2] = "rc-update"

\* The runlevels of OpenRC that the table uses.
Runlevels == {"boot", "sysinit", "default", "shutdown"}

\* No service is named by two entries of the table.
OneEntryEach ==
    \A i, j \in DOMAIN runlevel_settings :
        runlevel_settings[i][1] = runlevel_settings[j][1] => i = j

\* C34: on the Alpine path acpid and then crond are taken out of sysinit
\* before any service is added; the services are added in the order of the
\* table, each once and into the runlevel the table gives it; an rc-update
\* that fails is the last one that runs, and the run does not end in success.
C34_RunlevelRegistration ==
    (exit # "none" /\ flavor = "alpine") =>
        LET rc == SelectSeq(log, IsRcUpdate)
            adds == SelectSeq(log, IsRcAdd)
        IN  /\ \A k \in DOMAIN rc : ~rc[k].ok => (k = Len(rc) /\ exit # "ok")
            /\ rc # <<>> => IsRcDelete(rc[1], "acpid")
            /\ Len(rc) > 1 => IsRcDelete(rc[2], "crond")
            /\ \A k \in DOMAIN rc : k > 2 => IsRcAdd(rc[k])
            /\ Len(adds) <= Len(runlevel_settings)
            /\ \A k \in DOMAIN adds :
                  /\ adds[k].arg[4] = runlevel_settings[k][1]
                  /\ adds[k].arg[5] = runlevel_settings[k][2]
                  /\ adds[k].arg[5] \in Runlevels
            /\ OneEntryEach
            /\ exit = "ok" => Len(adds) = Len(runlevel_settings)

\* A run where the rc-update add of the fourth entry of the table failed
\* after the two deletes and three adds.
C34_Witness ==
    /\ exit = "err"
    /\ LET rc == SelectSeq(log, IsRcUpdate) IN
       /\ Len(rc) = 6
       /\ ~rc[6].ok
       /\ rc[6].arg[4] = "modules"
       /\ rc[5].ok /\ rc[5].arg[4] = "hwclock"

====
